---- MODULE Spec2Model ----
(***************************************************************************)
(* Request-dispatch pipeline of the Vector framework: route registration   *)
(* with specificity ordering (core/router.ts), the middleware chains       *)
(* (middleware/manager.ts), the auth gate (auth/protected.ts), the cache   *)
(* gate (cache/manager.ts) and the error responses (http.ts).              *)
(*                                                                         *)
(* A path pattern is a record [abs, segs]: abs says whether the string     *)
(* starts with '/', segs are its non-empty '/'-delimited segments.  A      *)
(* segment is a record [k, s]: a literal "s", a parameter ":s", a greedy   *)
(* parameter ":s+" or the wildcard "*".  A request pathname is the         *)
(* sequence of the strings that follow each of its '/' characters, so      *)
(* "/" is <<"">> and "/users/42/" is <<"users", "42", "">>.                *)
(***************************************************************************)
EXTENDS Integers, Sequences, FiniteSets, TLC

VARIABLES
    routes,            \* VectorRouter.routes: the route table, in scan order
    registered,        \* number of route()/addRoute() calls so far (entry ids)
    beforeHandlers,    \* MiddlewareManager.beforeHandlers (handler ids)
    finallyHandlers,   \* MiddlewareManager.finallyHandlers (handler ids)
    cloned,            \* the MiddlewareManager that clone() returned, or NoManager
    made,              \* number of handler functions handed to addBefore / addFinally so far
    protectedHandler,  \* AuthManager.protectedHandler: "null" or "set"
    cacheHandler,      \* CacheManager.cacheHandler: "null" or "set"
    memoryCache,       \* CacheManager.memoryCache: set of [key, value, expires]
    cleanupInterval,   \* CacheManager.cleanupInterval: NoTimer, or the time the timer fires next
    timers,            \* number of interval timers the CacheManager started and did not clear
    flights,           \* get() calls suspended at their await, by caller
    observed,          \* the CacheManager call that completed last, with what it returned
    lastSet,           \* per key: what the last set() stored, until delete or clear
    issued,            \* number of CacheManager calls made so far
    derived,           \* the generateKey() calls made so far: [request, authUser, key]
    misses,            \* per cache key: what the route handler returned on the last miss, or that it threw
    now,               \* Date.now(), in milliseconds
    served,            \* number of handle() calls made so far
    pc,                \* position of the request in flight inside handle()
    req,               \* the request in flight (VectorRequest fields)
    scan,              \* index of the table entry handle() is looking at
    cur,               \* index of the middleware handler the chain is at
    result,            \* value produced by the handler stage
    response,          \* value handle() resolved with, or NoResponse
    calls              \* user functions invoked for the request in flight, in order

vars == <<routes, registered, beforeHandlers, finallyHandlers, cloned, made, protectedHandler,
          cacheHandler, memoryCache, cleanupInterval, timers, flights, observed, lastSet, issued,
          derived, misses, now,
          served, pc, req, scan, cur, result, response, calls>>

tableVars == <<routes, registered>>
configVars == <<beforeHandlers, finallyHandlers, cloned, made, protectedHandler, cacheHandler>>
cacheVars == <<memoryCache, cleanupInterval, timers, now>>
storeVars == <<flights, observed, lastSet, issued, derived, misses>>
requestVars == <<served, pc, req, scan, cur, result, response, calls>>

----------------------------------------------------------------------------
(* Bounds of the model *)

MaxRoutes == 2        \* entries in the table of the pipeline specification
MaxTableRoutes == 3   \* entries in the table of the registration specification
MaxBefore == 2        \* before-middleware handlers
MaxFinally == 2       \* after-middleware handlers
MaxRequests == 2      \* requests handled one after the other

----------------------------------------------------------------------------
(* Path patterns *)

Lit(s) == [k |-> "lit", s |-> s]
Param(s) == [k |-> "param", s |-> s]
Greedy(s) == [k |-> "greedy", s |-> s]
Wild == [k |-> "wild", s |-> "*"]
\* a literal followed by a parameter in one segment, as 'v1:batch'; patterns
\* with such a segment are scored and sorted, requests are not matched
\* against them
Infix(s, name) == [k |-> "infix", s |-> s, name |-> name]

Abs(segs) == [abs |-> TRUE, segs |-> segs]
\* a pattern without a leading '/'
Rel(segs) == [abs |-> FALSE, segs |-> segs]
\* the empty string: what extractPath yields for an entry without a path
EmptyPath == [abs |-> FALSE, segs |-> <<>>]

UsersId == Abs(<<Lit("users"), Param("id")>>)            \* '/users/:id'
UsersProfile == Abs(<<Lit("users"), Lit("profile")>>)    \* '/users/profile'
Users == Abs(<<Lit("users")>>)                           \* '/users'
FilesWild == Abs(<<Lit("files"), Wild>>)                 \* '/files/*'
FilesSpecific == Abs(<<Lit("files"), Lit("specific")>>)  \* '/files/specific'
FilesPath == Abs(<<Lit("files"), Greedy("path")>>)       \* '/files/:path+'
UsersWild == Abs(<<Lit("users"), Wild>>)                 \* '/users/*'

\* segment.startsWith(':'), segment.includes('*'), segment.includes(':')
startsWithColon(seg) == seg.k \in {"param", "greedy"}
includesStar(seg) == seg.k = "wild"
includesColon(seg) == seg.k \in {"param", "greedy", "infix"}

\* number of characters of a segment
segmentLength(seg) ==
    CASE seg.k = "lit" -> Len(seg.s)
      [] seg.k = "param" -> 1 + Len(seg.s)
      [] seg.k = "greedy" -> 2 + Len(seg.s)
      [] seg.k = "wild" -> 1
      [] seg.k = "infix" -> Len(seg.s) + 1 + Len(seg.name)

RECURSIVE sumLengths(_)
sumLengths(segs) ==
    IF segs = <<>> THEN 0 ELSE segmentLength(Head(segs)) + sumLengths(Tail(segs))

\* path.length
pathLength(path) ==
    IF path.abs
    THEN (IF path.segs = <<>> THEN 1 ELSE Len(path.segs) + sumLengths(path.segs))
    ELSE (IF path.segs = <<>> THEN 0 ELSE Len(path.segs) - 1 + sumLengths(path.segs))

----------------------------------------------------------------------------
(* Specificity scorer *)

STATIC_SEGMENT_WEIGHT == 1000
PARAM_SEGMENT_WEIGHT == 10
WILDCARD_WEIGHT == 1
EXACT_MATCH_BONUS == 10000

isStaticSegment(segment) == ~startsWithColon(segment) /\ ~includesStar(segment)
isParamSegment(segment) == startsWithColon(segment)
isWildcardSegment(segment) == includesStar(segment)
isExactPath(path) ==
    \A i \in 1..Len(path.segs) : ~includesColon(path.segs[i]) /\ ~includesStar(path.segs[i])

segmentWeight(segment) ==
    IF isStaticSegment(segment) THEN STATIC_SEGMENT_WEIGHT
    ELSE IF isParamSegment(segment) THEN PARAM_SEGMENT_WEIGHT
    ELSE IF isWildcardSegment(segment) THEN WILDCARD_WEIGHT
    ELSE 0

RECURSIVE sumWeights(_)
sumWeights(segs) ==
    IF segs = <<>> THEN 0 ELSE segmentWeight(Head(segs)) + sumWeights(Tail(segs))

\* fault: the scorer without the bonus of a path free of ':' and '*'
specificityWithoutBonus(path) ==
    sumWeights(path.segs) + pathLength(path)

getRouteSpecificity(path) ==
    sumWeights(path.segs) + pathLength(path)
        + (IF isExactPath(path) THEN EXACT_MATCH_BONUS ELSE 0)

\* route[PATH_INDEX] || ''
extractPath(entry) == IF entry.hasPath THEN entry.path ELSE EmptyPath

----------------------------------------------------------------------------
(* Route table ordering: Array.prototype.sort is a stable sort *)

\* fault: the comparator with its operands swapped (ascending specificity)
compareRoutesAscending(a, b) ==
    getRouteSpecificity(extractPath(a)) - getRouteSpecificity(extractPath(b))

\* the comparator of sortRoutes: negative when a sorts before b
compareRoutes(a, b) ==
    getRouteSpecificity(extractPath(b)) - getRouteSpecificity(extractPath(a))

\* fault: a sort that puts an element before the earlier elements it ties with
staysBeforeUnlessTied(a, e) == compareRoutes(a, e) < 0

\* a stable sort: a stays before the later element e unless the comparator
\* puts e first
staysBefore(a, e) == compareRoutes(a, e) <= 0

\* s is sorted; e goes after every element that does not sort after it
RECURSIVE insertSorted(_, _)
insertSorted(s, e) ==
    IF s = <<>> THEN <<e>>
    ELSE IF staysBefore(Head(s), e)
         THEN <<Head(s)>> \o insertSorted(Tail(s), e)
         ELSE <<e>> \o s

RECURSIVE stableSort(_)
stableSort(s) ==
    IF s = <<>> THEN <<>>
    ELSE insertSorted(stableSort(SubSeq(s, 1, Len(s) - 1)), s[Len(s)])

sortRoutes(table) == stableSort(table)

----------------------------------------------------------------------------
(* Path matcher: what the RegExp built by createRouteRegex accepts *)

\* the compiled matcher keeps the segments; leading, repeated and trailing
\* slashes of the pattern are collapsed
createRouteRegex(path) == path.segs

\* the rest of the pathname from position j is matched by the final '/*$'
onlySlashes(pathname, j) == \A n \in j..Len(pathname) : pathname[n] = ""

\* does the regex from its i-th segment accept the pathname from its j-th one
RECURSIVE matchFrom(_, _, _, _)
matchFrom(regex, i, pathname, j) ==
    IF i > Len(regex) THEN onlySlashes(pathname, j)
    ELSE LET seg == regex[i] IN
         CASE seg.k = "lit" ->
                /\ j <= Len(pathname)
                /\ pathname[j] = seg.s
                /\ matchFrom(regex, i + 1, pathname, j + 1)
           [] seg.k = "param" ->      \* (/(?<name>[^/]+?))
                /\ j <= Len(pathname)
                /\ pathname[j] # ""
                /\ matchFrom(regex, i + 1, pathname, j + 1)
           [] seg.k = "greedy" ->     \* (/(?<name>(.*)?))
                /\ j <= Len(pathname)
                /\ \E n \in (j + 1)..(Len(pathname) + 1) :
                       matchFrom(regex, i + 1, pathname, n)
           [] seg.k = "wild" ->       \* (/.*)?
                \/ matchFrom(regex, i + 1, pathname, j)
                \/ /\ j <= Len(pathname)
                   /\ \E n \in (j + 1)..(Len(pathname) + 1) :
                          matchFrom(regex, i + 1, pathname, n)

\* pathname.match(regex) is not null
matches(pathname, regex) == matchFrom(regex, 1, pathname, 1)

\* the text of the pathname between two of its '/' characters
RECURSIVE joinSlash(_)
joinSlash(elements) ==
    IF Len(elements) = 1 THEN elements[1]
    ELSE elements[1] \o "/" \o joinSlash(Tail(elements))

\* where a group that takes as much as it can ('.*') ends: the last
\* position from which the rest of the regex still accepts, or 0
longestFrom(regex, i, pathname, j) ==
    LET ends == {n \in (j + 1)..(Len(pathname) + 1) : matchFrom(regex, i + 1, pathname, n)}
    IN IF j > Len(pathname) \/ ends = {} THEN 0
       ELSE CHOOSE n \in ends : \A m \in ends : m <= n

\* the named groups of the match the regex finds from its i-th segment and
\* the j-th element of the pathname, in the order of the pattern
RECURSIVE groupsFrom(_, _, _, _)
groupsFrom(regex, i, pathname, j) ==
    IF i > Len(regex) THEN <<>>
    ELSE LET seg == regex[i]
             n == longestFrom(regex, i, pathname, j)
         IN
         CASE seg.k = "lit" -> groupsFrom(regex, i + 1, pathname, j + 1)
           [] seg.k = "param" ->
                <<[name |-> seg.s, value |-> pathname[j]]>>
                    \o groupsFrom(regex, i + 1, pathname, j + 1)
           [] seg.k = "greedy" ->
                <<[name |-> seg.s, value |-> joinSlash(SubSeq(pathname, j, n - 1))]>>
                    \o groupsFrom(regex, i + 1, pathname, n)
           [] seg.k = "wild" ->
                IF n # 0 THEN groupsFrom(regex, i + 1, pathname, n)
                ELSE groupsFrom(regex, i + 1, pathname, j)

\* match.groups || {} of a pathname the regex accepts
groups(pathname, regex) == groupsFrom(regex, 1, pathname, 1)

----------------------------------------------------------------------------
(* Route registration *)

Methods == {"GET", "post", "trace"}

\* String.prototype.toUpperCase on the method names in use
toUpperCase(m) ==
    CASE m = "get" -> "GET"
      [] m = "post" -> "POST"
      [] m = "trace" -> "TRACE"
      [] OTHER -> m

\* the methods isValidHttpMethod accepts
validMethods == {"GET", "POST", "PUT", "PATCH", "DELETE", "OPTIONS", "HEAD"}

JSON == "application/json"   \* CONTENT_TYPES.JSON
TextPlain == "text/plain"

\* RouteOptions; "unset" is an absent optional field, cache 0 an absent policy
Options(method, path) ==
    [method |-> method, path |-> path, auth |-> FALSE, expose |-> "unset",
     cache |-> 0, rawRequest |-> FALSE, rawResponse |-> FALSE,
     responseContentType |-> "unset"]

\* the entry route() builds: [method, regex, [wrappedHandler], path]
routeEntry(options, id) ==
    [method |-> toUpperCase(options.method),
     regex |-> createRouteRegex(options.path),
     wrapped |-> TRUE,
     options |-> options,
     hasPath |-> TRUE,
     path |-> options.path,
     id |-> id]

\* an entry built outside the router and handed to addRoute(): its handler is
\* not wrapped, and its fourth element may be missing
legacyEntry(method, path, hasPath, id) ==
    [method |-> method,
     regex |-> createRouteRegex(path),
     wrapped |-> FALSE,
     options |-> Options(method, path),
     hasPath |-> hasPath,
     path |-> path,
     id |-> id]

\* fault: the push without the sort that follows it
pushOnly(table, entry) == Append(table, entry)

\* this.routes.push(routeEntry); this.sortRoutes()
pushAndSort(table, entry) == sortRoutes(Append(table, entry))

\* route(options, handler)
route(options, limit) ==
    /\ pc = "idle" /\ served = 0
    /\ registered < limit
    /\ routes' = pushAndSort(routes, routeEntry(options, registered + 1))
    /\ registered' = registered + 1
    /\ UNCHANGED <<configVars, cacheVars, storeVars, requestVars>>

\* addRoute(routeEntry)
addRoute(method, path, hasPath, limit) ==
    /\ pc = "idle" /\ served = 0
    /\ registered < limit
    /\ routes' = pushAndSort(routes, legacyEntry(method, path, hasPath, registered + 1))
    /\ registered' = registered + 1
    /\ UNCHANGED <<configVars, cacheVars, storeVars, requestVars>>

\* clearRoutes()
clearRoutes ==
    /\ pc = "idle" /\ served = 0
    /\ routes # <<>>
    /\ routes' = <<>>
    /\ UNCHANGED <<registered, configVars, cacheVars, storeVars, requestVars>>

----------------------------------------------------------------------------
(* Responses *)

\* HTTP_STATUS
OK == 200
UNAUTHORIZED == 401
FORBIDDEN == 403
NOT_FOUND == 404
INTERNAL_SERVER_ERROR == 500

NoResponse == [origin |-> "none"]
NoRequest == [method |-> "none"]
NoUser == "unset"

\* values a handler returns and errors a user function throws
Data(id) == [t |-> "object", from |-> id]
Undefined == [t |-> "undefined"]
ErrorOf(message) == [t |-> "Error", message |-> message]
StringValue(str) == [t |-> "string", str |-> str]
ThrownResponse(r) == [t |-> "Response", response |-> r]

\* String(value)
String(value) ==
    CASE value.t = "string" -> value.str
      [] value.t = "Error" -> "Error: " \o value.message
      [] value.t = "Response" -> "[object Response]"
      [] value.t = "undefined" -> "undefined"
      [] OTHER -> "[object Object]"

\* error instanceof Error ? error.message : String(error)
messageOf(error) == IF error.t = "Error" THEN error.message ELSE String(error)

\* JSON.stringify(data ?? null, ...): the JSON text, kept as the value it encodes
stringifyData(data) == [fmt |-> "json", data |-> IF data = Undefined THEN [t |-> "null"] ELSE data]

\* the body a Response gets from a BodyInit that is not already a string
bodyText(data) == [fmt |-> "text", text |-> String(data)]

\* a Response some user function constructed itself
UserResponse(status, text, fn, id) ==
    [status |-> status, body |-> [fmt |-> "text", text |-> text],
     contentType |-> TextPlain, cookies |-> <<>>, origin |-> fn, by |-> id]

\* the same with one Set-Cookie header per element of cookies
withCookies(r, cookies) == [r EXCEPT !.cookies = cookies]

\* createResponse(statusCode, data, contentType = CONTENT_TYPES.JSON)
createResponse(statusCode, data, contentType) ==
    LET ct == IF contentType = "unset" THEN JSON ELSE contentType IN
    [status |-> statusCode,
     body |-> IF ct = JSON THEN stringifyData(data) ELSE bodyText(data),
     contentType |-> ct, cookies |-> <<>>, origin |-> "createResponse", by |-> 0]

\* createErrorResponse(code, message, contentType)
createErrorResponse(code, message, contentType) ==
    createResponse(code,
                   [t |-> "object", error |-> TRUE, message |-> message,
                    statusCode |-> code, timestamp |-> now],
                   contentType)

\* APIError.unauthorized / forbidden / notFound / internalServerError
unauthorized(msg, contentType) == createErrorResponse(UNAUTHORIZED, msg, contentType)
forbidden(msg, contentType) == createErrorResponse(FORBIDDEN, msg, contentType)
notFound(msg, contentType) == createErrorResponse(NOT_FOUND, msg, contentType)
internalServerError(msg, contentType) ==
    createErrorResponse(INTERNAL_SERVER_ERROR, msg, contentType)

\* fault: a catch clause that turns every thrown value into a 500
errorFunnelAlways500(error, options) ==
    internalServerError(messageOf(error), options.responseContentType)

\* the catch clause of wrapHandler: a thrown Response is returned as it is,
\* anything else becomes a 500
errorFunnel(error, options) ==
    IF error.t = "Response" THEN error.response
    ELSE internalServerError(messageOf(error), options.responseContentType)

----------------------------------------------------------------------------
(* CacheManager: values of its fields and of the calls made on it *)

MaxCallers == 2       \* callers that may have a get() suspended at the same time
MaxNow == 1000        \* the clock advances second by second up to this time
MaxCalls == 3         \* calls made on the CacheManager

Callers == 1..MaxCallers
CacheKeys == {"k1", "k2"}
Ttls == {-1, 0, 1, 2}

\* cleanupInterval: Timer | null
NoTimer == -1
CLEANUP_PERIOD == 60000

\* fault: scheduleCleanup() without its test of the running timer
startsTimerAlways == TRUE

\* scheduleCleanup(): if (this.cleanupInterval) return
startsTimer == cleanupInterval = NoTimer

\* scheduleCleanup(): the field after the call; a timer is started unless one
\* is running
scheduleCleanup ==
    IF startsTimer THEN now + CLEANUP_PERIOD ELSE cleanupInterval

\* the number of running timers after scheduleCleanup()
setInterval == IF startsTimer THEN timers + 1 ELSE timers

\* the number of running timers after
\* if (this.cleanupInterval) { clearInterval(this.cleanupInterval) }
clearInterval == IF cleanupInterval # NoTimer THEN timers - 1 ELSE timers

Idle == [state |-> "idle"]
NoManager == [exists |-> FALSE]
NoCall == [op |-> "none"]
NotSet == [t |-> "none"]

----------------------------------------------------------------------------
(* Initial state: a freshly constructed router, managers and cache *)

Init ==
    /\ routes = <<>>
    /\ registered = 0
    /\ beforeHandlers = <<>>
    /\ finallyHandlers = <<>>
    /\ cloned = NoManager
    /\ made = [before |-> 0, finally |-> 0]
    /\ protectedHandler = "null"
    /\ cacheHandler = "null"
    /\ memoryCache = {}
    /\ cleanupInterval = NoTimer
    /\ timers = 0
    /\ flights = [f \in Callers |-> Idle]
    /\ observed = NoCall
    /\ lastSet = [k \in CacheKeys |-> NotSet]
    /\ issued = 0
    /\ derived = <<>>
    /\ misses = {}
    /\ now = 0
    /\ served = 0
    /\ pc = "idle"
    /\ req = NoRequest
    /\ scan = 0
    /\ cur = 0
    /\ result = NoResponse
    /\ response = NoResponse
    /\ calls = <<>>

----------------------------------------------------------------------------
(* Configuration of the managers *)

\* fault: new handlers put in front of the registered ones
unshiftAll(array, items) == items \o array

\* array.push(...items)
pushAll(array, items) == array \o items

\* the k-th handler function ever handed to addBefore() or addFinally() of a
\* manager is written k: n more handlers after count were registered
newHandlers(count, n) == [i \in 1..n |-> count + i]

\* an array of a manager: its items, and whether it is the very array object
\* the other manager's field of the same name refers to
Array(items, same) == [items |-> items, same |-> same]

\* fault: the clone is given the array of the original
sameArray(items) == Array(items, TRUE)

\* [...this.beforeHandlers]: a new array with the same items
spread(items) == Array(items, FALSE)

\* what a push on one manager's array does to the other manager's array
seenThrough(array, pushedItems) ==
    IF array.same THEN Array(pushedItems, TRUE) ELSE array

\* addBefore(...handlers) with n handlers
addBefore(n) ==
    /\ pc = "idle" /\ served = 0
    /\ made.before + n <= MaxBefore
    /\ made' = [made EXCEPT !.before = @ + n]
    /\ beforeHandlers' = pushAll(beforeHandlers, newHandlers(made.before, n))
    /\ cloned' = IF cloned = NoManager THEN cloned
                 ELSE [cloned EXCEPT !.beforeHandlers = seenThrough(@, beforeHandlers')]
    /\ UNCHANGED <<tableVars, storeVars, finallyHandlers, protectedHandler, cacheHandler,
                   cacheVars, requestVars>>

\* addFinally(...handlers) with n handlers
addFinally(n) ==
    /\ pc = "idle" /\ served = 0
    /\ made.finally + n <= MaxFinally
    /\ made' = [made EXCEPT !.finally = @ + n]
    /\ finallyHandlers' = pushAll(finallyHandlers, newHandlers(made.finally, n))
    /\ cloned' = IF cloned = NoManager THEN cloned
                 ELSE [cloned EXCEPT !.finallyHandlers = seenThrough(@, finallyHandlers')]
    /\ UNCHANGED <<tableVars, storeVars, beforeHandlers, protectedHandler, cacheHandler,
                   cacheVars, requestVars>>

managerFrame ==
    UNCHANGED <<tableVars, storeVars, protectedHandler, cacheHandler, cacheVars, requestVars>>

\* clone()
clone ==
    /\ cloned = NoManager
    /\ cloned' = [exists |-> TRUE,
                  beforeHandlers |-> spread(beforeHandlers),
                  finallyHandlers |-> spread(finallyHandlers)]
    /\ UNCHANGED <<beforeHandlers, finallyHandlers, made>>
    /\ managerFrame

\* clear(): both fields are bound to new, empty arrays
clearHandlers ==
    /\ beforeHandlers # <<>> \/ finallyHandlers # <<>>
    /\ beforeHandlers' = <<>>
    /\ finallyHandlers' = <<>>
    /\ cloned' = IF cloned = NoManager THEN cloned
                 ELSE [cloned EXCEPT !.beforeHandlers.same = FALSE,
                                     !.finallyHandlers.same = FALSE]
    /\ UNCHANGED made
    /\ managerFrame

\* addBefore(...handlers) called on the clone
clonedAddBefore(n) ==
    /\ cloned # NoManager
    /\ made.before + n <= MaxBefore
    /\ made' = [made EXCEPT !.before = @ + n]
    /\ LET items == pushAll(cloned.beforeHandlers.items, newHandlers(made.before, n)) IN
       /\ cloned' = [cloned EXCEPT !.beforeHandlers.items = items]
       /\ beforeHandlers' = IF cloned.beforeHandlers.same THEN items ELSE beforeHandlers
    /\ UNCHANGED finallyHandlers
    /\ managerFrame

\* addFinally(...handlers) called on the clone
clonedAddFinally(n) ==
    /\ cloned # NoManager
    /\ made.finally + n <= MaxFinally
    /\ made' = [made EXCEPT !.finally = @ + n]
    /\ LET items == pushAll(cloned.finallyHandlers.items, newHandlers(made.finally, n)) IN
       /\ cloned' = [cloned EXCEPT !.finallyHandlers.items = items]
       /\ finallyHandlers' = IF cloned.finallyHandlers.same THEN items ELSE finallyHandlers
    /\ UNCHANGED beforeHandlers
    /\ managerFrame

\* clear() called on the clone
clonedClear ==
    /\ cloned # NoManager
    /\ cloned.beforeHandlers.items # <<>> \/ cloned.finallyHandlers.items # <<>>
    /\ cloned' = [cloned EXCEPT !.beforeHandlers = Array(<<>>, FALSE),
                                !.finallyHandlers = Array(<<>>, FALSE)]
    /\ UNCHANGED <<beforeHandlers, finallyHandlers, made>>
    /\ managerFrame

\* AuthManager.setProtectedHandler(handler)
setProtectedHandler ==
    /\ pc = "idle" /\ served = 0
    /\ protectedHandler = "null"
    /\ protectedHandler' = "set"
    /\ UNCHANGED <<tableVars, storeVars, beforeHandlers, finallyHandlers, cloned, made,
                   cacheHandler,
                   cacheVars, requestVars>>

\* CacheManager.setCacheHandler(handler)
setCacheHandler ==
    /\ pc = "idle" /\ served = 0
    /\ cacheHandler = "null"
    /\ cacheHandler' = "set"
    /\ UNCHANGED <<tableVars, storeVars, beforeHandlers, finallyHandlers, cloned, made,
                   protectedHandler,
                   cacheVars, requestVars>>

----------------------------------------------------------------------------
(* What the user-supplied functions may do when called *)

Return(value) == [kind |-> "return", value |-> value]
Throw(error) == [kind |-> "throw", value |-> error]
ResponseValue(r) == [t |-> "Response", response |-> r]

\* one entry of the calls log: which function ran, the request or Response
\* it was called with (got), how it ended ("return", "response" for a returned
\* Response, "throw", "throwResponse" for a thrown Response), the principal
\* it returned or the message of what it threw (val) and the value it
\* returned (ret)
CallOn(fn, id, o, got) ==
    [fn |-> fn, id |-> id, got |-> got,
     out |-> IF o.kind = "return"
             THEN (IF o.value.t = "Response" THEN "response" ELSE "return")
             ELSE (IF o.value.t = "Response" THEN "throwResponse" ELSE "throw"),
     val |-> IF o.kind = "throw" /\ o.value.t # "Response" THEN messageOf(o.value)
             ELSE IF o.kind = "return" /\ o.value.t = "principal" THEN o.value.id
             ELSE "",
     ret |-> IF o.kind = "return" THEN o.value ELSE Undefined]

\* an entry for a function whose argument the log does not keep
Call(fn, id, o) == CallOn(fn, id, o, Undefined)

\* a request object: the one handle() was called with is tagged "client",
\* one that the before-middleware id built is tagged with id
RequestValue(tag) == [t |-> "request", tag |-> tag]
Client == "client"
builtBy(id) == "before" \o ToString(id)

Principals == {"alice", "bob"}

\* a before-middleware returns the request it got, a request of its own or
\* a Response, or throws
BeforeOutcomes(id, current) ==
    {Return(RequestValue(current)),
     Return(RequestValue(builtBy(id))),
     Return(ResponseValue(UserResponse(FORBIDDEN, "Blocked by middleware", "before", id))),
     Throw(ErrorOf("Middleware error")),
     Throw(StringValue("before failed")),
     Throw(ResponseValue(UserResponse(NOT_FOUND, "thrown by middleware", "before", id)))}

\* the authentication function resolves with a principal or throws
ProtectedOutcomes ==
    {Return([t |-> "principal", id |-> u]) : u \in Principals}
        \cup {Throw(ErrorOf("Invalid token")), Throw(StringValue("denied"))}

\* a route handler returns data or a Response, or throws
HandlerOutcomes(id) ==
    {Return(Data(id)),
     Return(ResponseValue(UserResponse(OK, "handler response", "handler", id))),
     Return(ResponseValue(withCookies(UserResponse(OK, "signed in", "handler", id),
                                      <<"session=1", "theme=dark">>))),
     Throw(ErrorOf("Handler error")),
     Throw(StringValue("handler failed")),
     Throw(ResponseValue(UserResponse(NOT_FOUND, "thrown by handler", "handler", id)))}

\* an after-middleware returns the Response it got or a new one, or throws
AfterOutcomes(id, current) ==
    {Return(ResponseValue(current)),
     Return(ResponseValue([current EXCEPT !.origin = "after", !.by = id])),
     Throw(ErrorOf("After error")),
     Throw(ResponseValue(UserResponse(NOT_FOUND, "thrown by after", "after", id)))}

\* a handler of an entry added through addRoute() answers, or returns nothing
LegacyOutcomes(id) ==
    {Return(ResponseValue(UserResponse(OK, "legacy response", "legacy", id))),
     Return(Undefined)}

----------------------------------------------------------------------------
(* handle(request) *)

ReqMethods == {"GET", "POST", "OPTIONS"}
ReqPaths == {<<"users", "profile">>, <<"missing">>}

\* fault: the loop of handle() without its method test
compatibleAnyMethod(request, entry) ==
    matches(request.pathname, entry.regex)

\* fault: the loop of handle() without its special case for OPTIONS
compatibleExactMethod(request, entry) ==
    /\ request.method = entry.method
    /\ matches(request.pathname, entry.regex)

\* request.method === 'OPTIONS' || request.method === method, and the regex accepts
compatible(request, entry) ==
    /\ (request.method = "OPTIONS" \/ request.method = entry.method)
    /\ matches(request.pathname, entry.regex)

\* the first entry at or after position from that the loop of handle() enters
nextMatch(table, request, from) ==
    LET hits == {i \in from..Len(table) : compatible(request, table[i])}
    IN IF hits = {} THEN 0 ELSE CHOOSE i \in hits : \A j \in hits : i <= j

\* a request arrives: handle() is called
receive(method, pathname) ==
    /\ pc = "idle"
    /\ served < MaxRequests
    /\ served' = served + 1
    /\ req' = [method |-> method, pathname |-> pathname, search |-> "",
               authUser |-> NoUser, content |-> "unset", route |-> EmptyPath,
               params |-> <<>>, tag |-> Client]
    /\ scan' = 0
    /\ cur' = 0
    /\ result' = NoResponse
    /\ response' = NoResponse
    /\ calls' = <<>>
    /\ pc' = "match"
    /\ UNCHANGED <<tableVars, storeVars, configVars, cacheVars>>

\* the for loop of handle(), up to the call of the next matching entry's handler
match ==
    /\ pc = "match"
    /\ LET n == nextMatch(routes, req, scan + 1) IN
       IF n = 0
       THEN /\ response' = notFound("Route not found", "unset")
            /\ pc' = "done"
            /\ UNCHANGED <<req, scan>>
       ELSE /\ scan' = n
            /\ req' = [req EXCEPT !.route = extractPath(routes[n]),
                                  !.params = groups(req.pathname, routes[n].regex)]
            /\ pc' = IF routes[n].wrapped THEN "expose" ELSE "legacy"
            /\ UNCHANGED response
    /\ UNCHANGED <<tableVars, storeVars, configVars, cacheVars, served, cur, result, calls>>

\* the handler of an entry that addRoute() added: if (response) return response
legacy ==
    /\ pc = "legacy"
    /\ \E o \in LegacyOutcomes(routes[scan].id) :
          /\ calls' = Append(calls, Call("legacy", routes[scan].id, o))
          /\ IF o.value.t = "Response"
             THEN response' = o.value.response /\ pc' = "done"
             ELSE response' = response /\ pc' = "match"
    /\ UNCHANGED <<tableVars, storeVars, configVars, cacheVars, served, req, scan, cur, result>>

\* fault: the wrapped handler goes from the before-middleware to the body
nextStageSkipsAuth(stage) ==
    CASE stage = "expose" -> "before"
      [] stage = "before" -> "body"
      [] stage = "auth" -> "body"
      [] stage = "body" -> "handler"
      [] stage = "handler" -> "after"

\* fault: the wrapped handler looks the cache up right after the exposure check
nextStageLookupFirst(stage) ==
    CASE stage = "expose" -> "handler"
      [] stage = "before" -> "auth"
      [] stage = "auth" -> "body"
      [] stage = "body" -> "handler"
      [] stage = "handler" -> "after"

\* fault: the wrapped handler returns after the handler stage
nextStageSkipsAfter(stage) ==
    CASE stage = "expose" -> "before"
      [] stage = "before" -> "auth"
      [] stage = "auth" -> "body"
      [] stage = "body" -> "handler"
      [] stage = "handler" -> "done"

\* the statements of the try block of the wrapped handler, in program order
nextStage(stage) ==
    CASE stage = "expose" -> "before"
      [] stage = "before" -> "auth"
      [] stage = "auth" -> "body"
      [] stage = "body" -> "handler"
      [] stage = "handler" -> "after"

\* fault: the exposure check never fires
isUnexposedNever(options) == FALSE

\* fault: a route is exposed only when it says so
isUnexposedUnlessTrue(options) == options.expose # "true"

\* options.expose === false
isUnexposed(options) == options.expose = "false"

\* wrapHandler: the exposure check
exposureCheck ==
    /\ pc = "expose"
    /\ IF isUnexposed(routes[scan].options)
       THEN response' = forbidden("Forbidden", "unset") /\ pc' = "done" /\ cur' = cur
       ELSE response' = response /\ pc' = nextStage("expose") /\ cur' = 1
    /\ UNCHANGED <<tableVars, storeVars, configVars, cacheVars, served, req, scan, result, calls>>

\* fault: a try block that covers the route handler only
insideTryHandlerOnly(stage) == stage = "handler"

\* the try block of wrapHandler covers every stage after the request preparation
insideTry(stage) == stage \in {"expose", "before", "auth", "body", "handler", "after"}

\* fault: a route handler that threw is called again
retriesHandler(stage) == IF stage = "handler" THEN "handler" ELSE "done"

\* the catch clause returns: the wrapped handler is over
afterCatch(stage) == "done"

\* a user function threw error while the wrapped handler was in stage
raise(error, stage, options) ==
    IF insideTry(stage)
    THEN response' = errorFunnel(error, options) /\ pc' = afterCatch(stage)
    ELSE response' = response /\ pc' = "rejected"

\* fault: a Response from a before-middleware does not end the chain
returnsEarlyNever(value) == FALSE

\* executeBefore: result instanceof Response ends the chain
returnsEarly(value) == value.t = "Response"

\* currentRequest = result: the object the chain goes on with
carriedOn(value) == IF value.t = "request" THEN value.tag ELSE "response"

\* executeBefore: one turn of its loop, or its end
\* req holds currentRequest while the chain runs
executeBefore ==
    /\ pc = "before"
    /\ IF cur > Len(beforeHandlers)
       THEN /\ pc' = nextStage("before")
            /\ UNCHANGED <<cur, req, response, calls>>
       ELSE \E o \in BeforeOutcomes(beforeHandlers[cur], req.tag) :
              /\ calls' = Append(calls, CallOn("before", beforeHandlers[cur], o,
                                               RequestValue(req.tag)))
              /\ IF o.kind = "throw"
                 THEN /\ raise(o.value, "before", routes[scan].options)
                      /\ UNCHANGED <<cur, req>>
                 ELSE IF returnsEarly(o.value)
                 THEN /\ response' = o.value.response
                      /\ pc' = "done"
                      /\ UNCHANGED <<cur, req>>
                 ELSE /\ response' = response
                      /\ pc' = "before"
                      /\ cur' = cur + 1
                      /\ req' = [req EXCEPT !.tag = carriedOn(o.value)]
    /\ UNCHANGED <<tableVars, storeVars, configVars, cacheVars, served, scan, result>>

NotConfigured ==
    "Protected handler not configured. Use vector.protected() to set authentication handler."

\* AuthManager.authenticate once the configured function ended with outcome o:
\* whatever it threw is wrapped in an Error
authenticate(o) ==
    IF o.kind = "return" THEN o
    ELSE Throw(ErrorOf("Authentication failed: " \o messageOf(o.value)))

\* fault: the principal is not attached to the request
attachNothing(request, principal) == request

\* request.authUser = authUser
attachPrincipal(request, principal) == [request EXCEPT !.authUser = principal]

\* fault: an authentication failure left to the generic catch clause
authFailureToFunnel(error, options) == errorFunnel(error, options)

\* the catch clause of the auth stage
authFailure(error, options) ==
    unauthorized(IF error.t = "Error" THEN error.message ELSE "Authentication failed",
                 options.responseContentType)

\* wrapHandler: the auth stage
authStage ==
    /\ pc = "auth"
    /\ LET options == routes[scan].options IN
       IF ~options.auth
       THEN /\ pc' = nextStage("auth")
            /\ UNCHANGED <<req, response, calls>>
       ELSE IF protectedHandler = "null"
       THEN /\ calls' = Append(calls, Call("authenticate", 0, Throw(ErrorOf(NotConfigured))))
            /\ response' = authFailure(ErrorOf(NotConfigured), options)
            /\ pc' = "done"
            /\ req' = req
       ELSE \E o \in ProtectedOutcomes :
              LET a == authenticate(o) IN
              /\ calls' = calls \o <<Call("auth", 0, o), Call("authenticate", 0, a)>>
              /\ IF a.kind = "return"
                 THEN /\ req' = attachPrincipal(req, a.value.id)
                      /\ pc' = nextStage("auth")
                      /\ response' = response
                 ELSE /\ response' = authFailure(a.value, options)
                      /\ pc' = "done"
                      /\ req' = req
    /\ UNCHANGED <<tableVars, storeVars, configVars, cacheVars, served, scan, cur, result>>

\* fault: the body of every request is decoded
decodesBodyAlways(options, request) == TRUE

\* !options.rawRequest && request.method !== 'GET' && request.method !== 'HEAD'
decodesBody(options, request) ==
    ~options.rawRequest /\ request.method # "GET" /\ request.method # "HEAD"

\* reading and parsing the body gives a value or throws
BodyOutcomes == {Return(StringValue("parsed")), Throw(ErrorOf("Unexpected token"))}

\* try { request.content = await request.json() ... } catch { request.content = null }
contentAfter(o) == IF o.kind = "return" THEN o.value.str ELSE "null"

\* wrapHandler: body decoding; a failure leaves content null
bodyStage ==
    /\ pc = "body"
    /\ IF decodesBody(routes[scan].options, req)
       THEN /\ \E o \in BodyOutcomes : req' = [req EXCEPT !.content = contentAfter(o)]
            /\ calls' = Append(calls, Call("body", 0, Return(Undefined)))
       ELSE UNCHANGED <<req, calls>>
    /\ pc' = nextStage("body")
    /\ UNCHANGED <<tableVars, storeVars, configVars, cacheVars, served, scan, cur, result, response>>

----------------------------------------------------------------------------
(* Cache gate *)

RECURSIVE pathnameString(_)
pathnameString(pathname) ==
    IF pathname = <<>> THEN ""
    ELSE "/" \o Head(pathname) \o pathnameString(Tail(pathname))

\* options?.authUser?.id: a principal is written as its id; no principal, and
\* a principal without an id, read as the empty string
idOf(authUser) == IF authUser = NoUser THEN "" ELSE authUser

\* generateKey(request, { authUser }):
\* [method, pathname, search, authUser?.id || 'anonymous'].join(':')
generateKey(request, authUser) ==
    request.method \o ":" \o pathnameString(request.pathname) \o ":" \o request.search
        \o ":" \o (IF idOf(authUser) = "" THEN "anonymous" ELSE idOf(authUser))

\* fault: a lookup that never finds an entry
cachedNothing(key) == {}

\* this.memoryCache.get(key)
cached(key) == {e \in memoryCache : e.key = key}

\* fault: an entry still valid at its expiry time
isCacheValidInclusive(entries, time) == \E e \in entries : e.expires >= time

\* entry !== undefined && entry.expires > now
isCacheValid(entries, time) == \E e \in entries : e.expires > time

\* fault: a miss returns the result of its factory without storing it
storesNothing(o) == FALSE

\* fault: what the factory threw is stored like a result
storesResultAlways(o) == TRUE

\* const value = await factory(); this.setInMemoryCache(key, value, ttl):
\* the store is written when the await returned
storesResult(o) == o.kind = "return"

\* fault: the ttl taken as milliseconds
setInMemoryCacheUnscaled(key, value, ttl) ==
    {e \in memoryCache : e.key # key}
        \cup {[key |-> key, value |-> value, expires |-> now + ttl]}

\* this.memoryCache.set(key, { value, expires }) with expires = Date.now() + ttl * 1000
setInMemoryCache(key, value, ttl) ==
    {e \in memoryCache : e.key # key}
        \cup {[key |-> key, value |-> value, expires |-> now + ttl * 1000]}

\* what a configured cache handler may do with (key, factory, ttl): run the
\* factory and pass its result or its error on, answer from its own store, or fail
CacheHandlerModes == {"compute", "hit", "throw"}

\* res.headers.entries(): one [name, value] pair per header, and one per
\* Set-Cookie header
entries(r) ==
    <<[name |-> "content-type", value |-> r.contentType]>>
        \o [i \in 1..Len(r.cookies) |-> [name |-> "set-cookie", value |-> r.cookies[i]]]

\* Object.fromEntries(pairs): an object has one property per name, and a
\* later pair replaces the value of an earlier pair of the same name
RECURSIVE fromEntries(_)
fromEntries(pairs) ==
    IF pairs = <<>> THEN <<>>
    ELSE LET object == fromEntries(SubSeq(pairs, 1, Len(pairs) - 1))
             last == pairs[Len(pairs)]
         IN IF \E i \in 1..Len(object) : object[i].name = last.name
            THEN [i \in 1..Len(object) |->
                     IF object[i].name = last.name THEN last ELSE object[i]]
            ELSE Append(object, last)

isSetCookie(pair) == pair.name = "set-cookie"

\* the Set-Cookie headers of new Headers(object)
cookiesOf(object) ==
    LET own == SelectSeq(object, isSetCookie) IN [i \in 1..Len(own) |-> own[i].value]

\* the Content-Type header of new Headers(object)
contentTypeOf(object) ==
    LET i == CHOOSE i \in 1..Len(object) : object[i].name = "content-type"
    IN object[i].value

\* cacheFactory: a Response the handler returned is flattened before it is
\* cached; res.text() is the text the body was made of
cacheFactory(o) ==
    IF o.kind = "return" /\ o.value.t = "Response"
    THEN Return([t |-> "_isResponse", body |-> o.value.response.body,
                 status |-> o.value.response.status,
                 headers |-> fromEntries(entries(o.value.response))])
    ELSE o

\* result._isResponse === true: new Response(result.body, { status, headers })
reconstruct(value) ==
    IF value.t = "_isResponse"
    THEN ResponseValue([status |-> value.status, body |-> value.body,
                        contentType |-> contentTypeOf(value.headers),
                        cookies |-> cookiesOf(value.headers),
                        origin |-> "reconstructed", by |-> 0])
    ELSE value

\* response normalization
normalize(options, value) ==
    IF value.t = "Response" THEN value.response
    ELSE IF options.rawResponse
    THEN [status |-> OK, body |-> bodyText(value), contentType |-> TextPlain,
          cookies |-> <<>>, origin |-> "rawResponse", by |-> 0]
    ELSE createResponse(OK, value, options.responseContentType)

\* cacheOptions && typeof cacheOptions === 'number' && cacheOptions > 0
usesCache(options) == options.cache > 0

\* wrapHandler after the handler stage produced outcome o (a value or a throw)
afterHandler(o, options) ==
    IF o.kind = "throw"
    THEN /\ raise(o.value, "handler", options)
         /\ UNCHANGED <<result, cur>>
    ELSE /\ result' = normalize(options, reconstruct(o.value))
         /\ pc' = nextStage("handler")
         /\ cur' = 1
         /\ response' = response

\* how a call ended: what it returned, or that it threw
ended(o) == IF o.kind = "return" THEN o ELSE [kind |-> "throw"]

\* wrapHandler: the handler stage, through the cache gate when the route has a policy
handlerStage ==
    /\ pc = "handler"
    /\ LET options == routes[scan].options
           id == routes[scan].id
           key == generateKey(req, req.authUser)
       IN
       \/ /\ ~usesCache(options)                      \* result = await handler(request)
          /\ \E o \in HandlerOutcomes(id) :
                /\ calls' = Append(calls, Call("handler", id, o))
                /\ afterHandler(o, options)
          /\ UNCHANGED <<memoryCache, cleanupInterval, timers, misses>>
       \/ /\ usesCache(options)                       \* a custom cache handler
          /\ cacheHandler = "set"
          /\ \E mode \in CacheHandlerModes :
                CASE mode = "compute" ->
                       \E o \in HandlerOutcomes(id) :
                          /\ calls' = calls \o <<Call("handler", id, o),
                                                 Call("cache", 0, cacheFactory(o))>>
                          /\ afterHandler(cacheFactory(o), options)
                  [] mode = "hit" ->
                       /\ calls' = Append(calls, Call("cache", 0, Return(Data(0))))
                       /\ afterHandler(Return(Data(0)), options)
                  [] mode = "throw" ->
                       /\ calls' = Append(calls, Call("cache", 0, Throw(ErrorOf("Cache error"))))
                       /\ afterHandler(Throw(ErrorOf("Cache error")), options)
          /\ UNCHANGED <<memoryCache, cleanupInterval, timers, misses>>
       \/ /\ usesCache(options)                       \* getFromMemoryCache: a hit
          /\ cacheHandler = "null"
          /\ isCacheValid(cached(key), now)
          /\ \E e \in cached(key) :
                /\ calls' = Append(calls, Call("cache", 0, Return(e.value)))
                /\ afterHandler(Return(e.value), options)
          /\ UNCHANGED <<memoryCache, cleanupInterval, timers, misses>>
       \/ /\ usesCache(options)                       \* getFromMemoryCache: a miss
          /\ cacheHandler = "null"
          /\ ~isCacheValid(cached(key), now)
          /\ \E o \in HandlerOutcomes(id) :
                /\ calls' = calls \o <<Call("handler", id, o),
                                       Call("cache", 0, cacheFactory(o))>>
                /\ afterHandler(cacheFactory(o), options)
                /\ memoryCache' =
                       IF storesResult(o)
                       THEN setInMemoryCache(key, cacheFactory(o).value, options.cache)
                       ELSE memoryCache
                /\ cleanupInterval' =
                       IF storesResult(o) THEN scheduleCleanup ELSE cleanupInterval
                /\ timers' = IF storesResult(o) THEN setInterval ELSE timers
                /\ misses' = {x \in misses : x.key # key}
                                 \cup {[key |-> key, outcome |-> ended(o)]}
    /\ UNCHANGED <<tableVars, flights, observed, lastSet, issued, derived, configVars, now,
                   served, req, scan>>

\* fault: every after-middleware is handed the response the chain started with
keepResponse(current, returned) == current

\* currentResponse = await handler(currentResponse, request)
nextResponse(current, returned) == returned

\* executeFinally: one turn of its loop, or its end; result holds currentResponse
executeFinally ==
    /\ pc = "after"
    /\ IF cur > Len(finallyHandlers)
       THEN /\ response' = result
            /\ pc' = "done"
            /\ UNCHANGED <<cur, result, calls>>
       ELSE \E o \in AfterOutcomes(finallyHandlers[cur], result) :
              /\ calls' = Append(calls, CallOn("after", finallyHandlers[cur], o,
                                               ResponseValue(result)))
              /\ IF o.kind = "throw"
                 THEN /\ raise(o.value, "after", routes[scan].options)
                      /\ UNCHANGED <<cur, result>>
                 ELSE /\ result' = nextResponse(result, o.value.response)
                      /\ cur' = cur + 1
                      /\ pc' = "after"
                      /\ response' = response
    /\ UNCHANGED <<tableVars, storeVars, configVars, cacheVars, served, req, scan>>

\* the caller of handle() has its Response (or its rejection); the router is
\* ready for the next request
finish ==
    /\ pc \in {"done", "rejected"}
    /\ pc' = "idle"
    /\ req' = NoRequest
    /\ scan' = 0
    /\ cur' = 0
    /\ result' = NoResponse
    /\ response' = NoResponse
    /\ calls' = <<>>
    /\ UNCHANGED <<tableVars, storeVars, configVars, cacheVars, served>>

----------------------------------------------------------------------------
(* CacheManager called directly: get, set, delete, has, clear and the sweep *)

StoredValues == {Data(1), Data(3)}

\* a factory resolves with a fresh value or fails
FactoryOutcomes == {Return(Data(2)), Throw(ErrorOf("Factory error"))}

Boolean(b) == [t |-> "boolean", b |-> b]

\* fault: only a negative ttl switches caching off
bypassesNegative(ttl) == ttl < 0

\* if (ttl <= 0)
bypasses(ttl) == ttl <= 0

\* fault: a miss waits for the factory another caller already started
missJoinsPending(key) ==
    ~\E g \in Callers : flights[g].state = "pending" /\ flights[g].key = key

\* getFromMemoryCache, on a miss: const value = await factory()
missInvokesFactory(key) == TRUE

\* has(): entry.expires <= Date.now()
hasExpired(entry, time) == entry.expires <= time

\* a get() suspended at its await
Pending(key, ttl, via, n, found) ==
    [state |-> "pending", key |-> key, ttl |-> ttl, via |-> via, calls |-> n,
     found |-> found, at |-> now, custom |-> cacheHandler # "null",
     since |-> lastSet[key]]

\* a completed call: what it returned (out), how many times it invoked the
\* factory, which store served it, whether it wrote the built-in store, the
\* entries it found under its key, the time it read the clock (at), the time
\* it returned (doneAt), and what the last set() of its key had stored when
\* the call was made (since)
Completed(op, key, ttl, out, n, via, wrote, found, at, custom, since) ==
    [op |-> op, key |-> key, ttl |-> ttl, out |-> out, calls |-> n, via |-> via,
     wrote |-> wrote, found |-> found, at |-> at, custom |-> custom,
     since |-> since, doneAt |-> now]

\* get(key, factory, ttl) up to its first await, or to its return on a hit
get(f, key, ttl) ==
    /\ issued < MaxCalls
    /\ issued' = issued + 1
    /\ flights[f] = Idle
    /\ \A g \in Callers : g < f => flights[g] # Idle
    /\ IF bypasses(ttl)
       THEN /\ flights' = [flights EXCEPT ![f] = Pending(key, ttl, "factory", 1, {})]
            /\ UNCHANGED observed
       ELSE IF cacheHandler # "null"
       THEN /\ flights' = [flights EXCEPT ![f] = Pending(key, ttl, "handler", 0, {})]
            /\ UNCHANGED observed
       ELSE IF isCacheValid(cached(key), now)
       THEN /\ \E e \in cached(key) :
                 observed' = Completed("get", key, ttl, Return(e.value), 0, "memory",
                                       FALSE, cached(key), now, FALSE, lastSet[key])
            /\ UNCHANGED flights
       ELSE /\ flights' = [flights EXCEPT ![f] =
                 Pending(key, ttl, "memory",
                         IF missInvokesFactory(key) THEN 1 ELSE 0, cached(key))]
            /\ UNCHANGED observed
    /\ UNCHANGED <<tableVars, configVars, derived, misses, cacheVars, lastSet, requestVars>>

\* what the last set() stored under key was replaced by another writer
overwritten(key) ==
    IF lastSet[key] = NotSet THEN lastSet
    ELSE [lastSet EXCEPT ![key].intact = FALSE]

\* the awaited factory or cache handler of a suspended get() settles, and
\* get() runs to its end
resume(f) ==
    /\ flights[f].state = "pending"
    /\ LET c == flights[f]
           done(o, n, wrote) ==
               observed' = Completed("get", c.key, c.ttl, o, n, c.via, wrote,
                                     c.found, c.at, c.custom, c.since)
       IN
       CASE c.via = "factory" ->
              /\ \E o \in FactoryOutcomes : done(o, c.calls, FALSE)
              /\ UNCHANGED <<memoryCache, cleanupInterval, timers, lastSet>>
         [] c.via = "handler" ->
              /\ \E mode \in CacheHandlerModes :
                    CASE mode = "compute" ->
                           \E o \in FactoryOutcomes : done(o, c.calls + 1, FALSE)
                      [] mode = "hit" -> done(Return(Data(0)), c.calls, FALSE)
                      [] mode = "throw" ->
                           done(Throw(ErrorOf("Cache error")), c.calls, FALSE)
              /\ UNCHANGED <<memoryCache, cleanupInterval, timers, lastSet>>
         [] c.via = "memory" ->
              \E o \in FactoryOutcomes :
                 IF storesResult(o) /\ c.calls > 0
                 THEN /\ memoryCache' = setInMemoryCache(c.key, o.value, c.ttl)
                      /\ cleanupInterval' = scheduleCleanup
                      /\ timers' = setInterval
                      /\ lastSet' = overwritten(c.key)
                      /\ done(o, c.calls, TRUE)
                 ELSE /\ done(o, c.calls, FALSE)
                      /\ UNCHANGED <<memoryCache, cleanupInterval, timers, lastSet>>
    /\ flights' = [flights EXCEPT ![f] = Idle]
    /\ UNCHANGED <<tableVars, configVars, derived, misses, now, issued, requestVars>>

\* set(key, value, ttl)
set(key, value, ttl) ==
    /\ issued < MaxCalls
    /\ issued' = issued + 1
    /\ IF bypasses(ttl)
       THEN /\ observed' = Completed("set", key, ttl, Return(Undefined), 0, "none",
                                     FALSE, cached(key), now, cacheHandler # "null",
                                     lastSet[key])
            /\ UNCHANGED <<memoryCache, cleanupInterval, timers, lastSet>>
       ELSE IF cacheHandler # "null"
       THEN /\ \E o \in {Return(Undefined), Throw(ErrorOf("Cache error"))} :
                 observed' = Completed("set", key, ttl, o, 0, "handler",
                                       FALSE, cached(key), now, TRUE, lastSet[key])
            /\ UNCHANGED <<memoryCache, cleanupInterval, timers, lastSet>>
       ELSE /\ memoryCache' = setInMemoryCache(key, value, ttl)
            /\ cleanupInterval' = scheduleCleanup
            /\ timers' = setInterval
            /\ lastSet' = [lastSet EXCEPT ![key] =
                              [t |-> "set", value |-> value,
                               expires |-> now + ttl * 1000, at |-> now,
                               intact |-> TRUE]]
            /\ observed' = Completed("set", key, ttl, Return(Undefined), 0, "memory",
                                     TRUE, cached(key), now, FALSE, lastSet[key])
    /\ UNCHANGED <<tableVars, configVars, derived, misses, now, flights, requestVars>>

\* delete(key)
delete(key) ==
    /\ issued < MaxCalls
    /\ issued' = issued + 1
    /\ memoryCache' = memoryCache \ cached(key)
    /\ lastSet' = [lastSet EXCEPT ![key] = NotSet]
    /\ observed' = Completed("delete", key, 0, Return(Boolean(cached(key) # {})), 0,
                             "memory", cached(key) # {}, cached(key), now,
                             cacheHandler # "null", lastSet[key])
    /\ UNCHANGED <<tableVars, configVars, derived, misses, cleanupInterval, timers, now, flights, requestVars>>

\* has(key): an expired entry is removed when it is looked at
has(key) ==
    /\ issued < MaxCalls
    /\ issued' = issued + 1
    /\ LET stale == {e \in cached(key) : hasExpired(e, now)} IN
       /\ memoryCache' = memoryCache \ stale
       /\ observed' = Completed("has", key, 0,
                                Return(Boolean(cached(key) # {} /\ stale = {})), 0,
                                "memory", stale # {}, cached(key), now,
                                cacheHandler # "null", lastSet[key])
    /\ UNCHANGED <<tableVars, configVars, derived, misses, cleanupInterval, timers, now, flights, lastSet,
                   requestVars>>

\* clear()
clear ==
    /\ issued < MaxCalls
    /\ issued' = issued + 1
    /\ memoryCache' = {}
    /\ cleanupInterval' = NoTimer
    /\ timers' = clearInterval
    /\ lastSet' = [k \in CacheKeys |-> NotSet]
    /\ observed' = Completed("clear", "", 0, Return(Undefined), 0, "memory",
                             memoryCache # {}, {}, now, cacheHandler # "null", NotSet)
    /\ UNCHANGED <<tableVars, configVars, derived, misses, now, flights, requestVars>>

\* fault: the sweep stops the timer whatever it leaves in the store
stopsTimerAlways(kept) == TRUE

\* cleanupExpired stops the timer when the store is empty after the sweep
stopsTimer(kept) == kept = {}

\* the timer fires: cleanupExpired()
cleanupExpired ==
    /\ cleanupInterval # NoTimer
    /\ now >= cleanupInterval
    /\ LET kept == {e \in memoryCache : ~(e.expires <= now)} IN
       /\ memoryCache' = kept
       /\ cleanupInterval' =
              IF stopsTimer(kept) THEN NoTimer ELSE cleanupInterval + CLEANUP_PERIOD
       /\ timers' = IF stopsTimer(kept) THEN clearInterval ELSE timers
       /\ observed' = Completed("cleanup", "", 0, Return(Undefined), 0, "memory",
                                kept # memoryCache, {}, now, cacheHandler # "null",
                                NotSet)
    /\ UNCHANGED <<tableVars, configVars, derived, misses, now, flights, lastSet, issued,
                   requestVars>>

\* time passes: second by second, then by the period of the sweep
tick ==
    /\ \/ now + 1000 <= MaxNow /\ now' = now + 1000
       \/ now + 1000 > MaxNow /\ now < CLEANUP_PERIOD /\ now' = now + CLEANUP_PERIOD
    /\ UNCHANGED <<tableVars, configVars, memoryCache, cleanupInterval, timers, storeVars,
                   requestVars>>

Get == \E f \in Callers, key \in CacheKeys, ttl \in Ttls : get(f, key, ttl)
Resume == \E f \in Callers : resume(f)
Set == \E key \in CacheKeys, value \in StoredValues, ttl \in Ttls : set(key, value, ttl)
Delete == \E key \in CacheKeys : delete(key)
Has == \E key \in CacheKeys : has(key)

\* the cache handler is configured before the cache is used
ConfigureCache == issued = 0 /\ setCacheHandler

NextCache ==
    \/ Get
    \/ Resume
    \/ Set
    \/ Delete
    \/ Has
    \/ clear
    \/ cleanupExpired
    \/ tick
    \/ ConfigureCache

SpecCache == Init /\ [][NextCache]_vars

\* the interval timer keeps firing while it is set, and time passes
SpecCacheLive == SpecCache /\ WF_vars(cleanupExpired) /\ WF_vars(tick)

----------------------------------------------------------------------------
(* The pipeline: a small table, the managers' configuration and one request
   at a time going through handle() *)

ProfileRoute == Options("GET", UsersProfile)
HiddenRoute == [Options("GET", UsersProfile) EXCEPT !.expose = "false"]
UserRoute == [Options("GET", UsersId) EXCEPT !.expose = "true", !.auth = TRUE]
CachedRoute == [Options("get", UsersWild) EXCEPT !.auth = TRUE, !.cache = 60]
TextRoute == [Options("POST", UsersProfile) EXCEPT !.responseContentType = TextPlain]

RouteDefs == {ProfileRoute, HiddenRoute, UserRoute, CachedRoute, TextRoute}

Route == \E o \in RouteDefs : route(o, MaxRoutes)
AddRoute == addRoute("GET", UsersProfile, TRUE, MaxRoutes)
AddBefore == \E n \in 1..MaxBefore : addBefore(n)
AddFinally == addFinally(MaxFinally)
Receive == \E m \in ReqMethods, p \in ReqPaths : receive(m, p)

Next ==
    \/ Route
    \/ AddRoute
    \/ AddBefore
    \/ AddFinally
    \/ setProtectedHandler
    \/ setCacheHandler
    \/ Receive
    \/ match
    \/ legacy
    \/ exposureCheck
    \/ executeBefore
    \/ authStage
    \/ bodyStage
    \/ handlerStage
    \/ executeFinally
    \/ finish

Spec == Init /\ [][Next]_vars

\* every step of handle() is a continuation the event loop runs, and the user
\* functions return or throw: a request in flight keeps moving
Progress ==
    \/ match
    \/ legacy
    \/ exposureCheck
    \/ executeBefore
    \/ authStage
    \/ bodyStage
    \/ handlerStage
    \/ executeFinally

SpecLive == Spec /\ WF_vars(Progress)

----------------------------------------------------------------------------
(* Registration only: every order of route() and addRoute() calls *)

TablePaths ==
    {UsersId, UsersProfile, Users, FilesWild, FilesSpecific, FilesPath, Rel(<<Lit("users")>>)}

TableRoute == \E m \in Methods, p \in TablePaths : route(Options(m, p), MaxTableRoutes)

TableAddRoute ==
    \E p \in TablePaths, hasPath \in BOOLEAN : addRoute("GET", p, hasPath, MaxTableRoutes)

NextTable == TableRoute \/ TableAddRoute \/ clearRoutes

SpecTable == Init /\ [][NextTable]_vars

----------------------------------------------------------------------------
(* Cache keys: generateKey() applied to requests and principals *)

MaxDerived == 2       \* generateKey() calls whose results are compared

KeyMethods == {"GET", "POST"}
KeyPathnames == {<<"api", "test">>, <<"api">>}
KeySearches == {"", "?page=1", "?page=1:2"}
\* no principal, principals with an id, and a principal whose id is missing
KeyPrincipals == {NoUser, "user-123", "anonymous", "2", "2:2", ""}

KeyRequests ==
    [method : KeyMethods, pathname : KeyPathnames, search : KeySearches]

\* cacheManager.generateKey(request, { authUser })
generateKeyCall(request, authUser) ==
    /\ Len(derived) < MaxDerived
    /\ derived' = Append(derived, [request |-> request, authUser |-> authUser,
                                   key |-> generateKey(request, authUser)])
    /\ UNCHANGED <<tableVars, configVars, cacheVars, flights, observed, lastSet, issued,
                   misses, requestVars>>

NextKeys == \E request \in KeyRequests, authUser \in KeyPrincipals :
                generateKeyCall(request, authUser)

SpecKeys == Init /\ [][NextKeys]_vars

----------------------------------------------------------------------------
(* Scores of long patterns: route() on patterns of up to MaxDepth segments *)

MaxDepth == 12        \* segments of the longest pattern

\* '/a/a/.../a' with n segments, and the same followed by one more segment
Deep(n) == Abs([i \in 1..n |-> Lit("a")])
DeepThen(n, last) == Abs([i \in 1..(n + 1) |-> IF i <= n THEN Lit("a") ELSE last])

ScorePaths ==
    {Deep(n) : n \in 1..MaxDepth}
        \cup {DeepThen(n, Param("id")) : n \in 0..(MaxDepth - 1)}
        \cup {DeepThen(n, Wild) : n \in 0..(MaxDepth - 1)}
        \cup {DeepThen(n, Greedy("rest")) : n \in 0..1}
        \cup {DeepThen(n, Infix("v1", "batch")) : n \in 0..1}
        \cup {Abs(<<>>)}

ScoreRoute == \E p \in ScorePaths : route(Options("GET", p), MaxRoutes)

NextScore == ScoreRoute \/ clearRoutes

SpecScore == Init /\ [][NextScore]_vars

----------------------------------------------------------------------------
(* A MiddlewareManager and its clone: handlers are added to both and both
   are cleared, in every order *)

NextManagers ==
    \/ \E n \in 1..MaxBefore : addBefore(n)
    \/ \E n \in 1..MaxFinally : addFinally(n)
    \/ clone
    \/ clearHandlers
    \/ \E n \in 1..MaxBefore : clonedAddBefore(n)
    \/ \E n \in 1..MaxFinally : clonedAddFinally(n)
    \/ clonedClear

SpecManagers == Init /\ [][NextManagers]_vars

----------------------------------------------------------------------------
(* Parameters: routes with named parameters and requests on paths of up to
   MaxSegments elements *)

MaxSegments == 4      \* elements of the longest request pathname

UsersPosts == Abs(<<Lit("users"), Param("userId"), Lit("posts"), Param("postId")>>)
GreedyInside == Abs(<<Lit("files"), Greedy("path"), Lit("raw")>>)

ParamPatterns == {UsersId, UsersPosts, FilesPath, GreedyInside, FilesWild, UsersProfile}

ParamElements == {"users", "files", "posts", "raw", "123", "456", ""}

ParamPathnames ==
    UNION {[1..n -> ParamElements] : n \in 1..MaxSegments}

ParamRoute == \E p \in ParamPatterns : route(Options("GET", p), 1)
ParamReceive == \E p \in ParamPathnames : receive("GET", p)

\* the router looks the request up; what the wrapped handler does with it is
\* left out
NextParams ==
    \/ ParamRoute
    \/ ParamReceive
    \/ match
    \/ finish
    \/ clearRoutes

SpecParams == Init /\ [][NextParams]_vars

----------------------------------------------------------------------------
(* Bodies: one route of any method, with or without rawRequest, and requests
   of every method on its path *)

BodyMethods == {"GET", "POST", "HEAD"}

BodyRoute ==
    \E m \in BodyMethods, raw \in BOOLEAN :
        route([Options(m, UsersProfile) EXCEPT !.rawRequest = raw], 1)

BodyReceive == \E m \in BodyMethods \cup {"OPTIONS"} : receive(m, <<"users", "profile">>)

NextBody ==
    \/ BodyRoute
    \/ BodyReceive
    \/ match
    \/ exposureCheck
    \/ executeBefore
    \/ authStage
    \/ bodyStage
    \/ handlerStage
    \/ executeFinally
    \/ finish

SpecBody == Init /\ [][NextBody]_vars

----------------------------------------------------------------------------
(* Properties *)

scoreAt(i) == getRouteSpecificity(extractPath(routes[i]))

\* the request in flight has a method the entry is compatible with and a
\* path its matcher accepts
accepts(entry) ==
    /\ (req.method = entry.method \/ req.method = "OPTIONS")
    /\ matches(req.pathname, entry.regex)

inFlight == pc \notin {"idle"}
dispatched == inFlight /\ scan # 0
invoked(fns) == {k \in 1..Len(calls) : calls[k].fn \in fns}

C2_TableSorted == \A i \in 1..(Len(routes) - 1) : scoreAt(i) >= scoreAt(i + 1)

\* the third registration went to the front of a table that also holds an
\* entry added through addRoute()
C2_Witness ==
    /\ Len(routes) = 3
    /\ routes[1].id = 3
    /\ \E i \in 1..3 : ~routes[i].wrapped
    /\ scoreAt(1) > scoreAt(2)

\* C3: when the scores of the registered paths are pairwise distinct the table
\* order depends only on the set of paths (each entry stands behind exactly
\* the entries that score higher); '/users/:id', '/users/profile' and '/users'
\* always end as '/users/profile', '/users', '/users/:id'.
C3_OrderIndependent ==
    LET n == Len(routes)
        paths == [i \in 1..n |-> extractPath(routes[i])]
    IN /\ (\A i, j \in 1..n : i # j => scoreAt(i) # scoreAt(j))
            => \A i \in 1..n : Cardinality({j \in 1..n : scoreAt(j) > scoreAt(i)}) = i - 1
       /\ (n = 3 /\ {paths[i] : i \in 1..n} = {UsersId, UsersProfile, Users})
            => paths = <<UsersProfile, Users, UsersId>>

\* the three routes of the example, registered in the order '/users/:id',
\* '/users/profile', '/users'
C3_Witness ==
    /\ Len(routes) = 3
    /\ routes[1].path = UsersProfile /\ routes[1].id = 2
    /\ routes[2].path = Users /\ routes[2].id = 3
    /\ routes[3].path = UsersId /\ routes[3].id = 1
    /\ \A i \in 1..3 : routes[i].wrapped

\* the first entry of the table that accepts the request in flight, or 0
firstAccepting ==
    LET hits == {i \in 1..Len(routes) : accepts(routes[i])}
    IN IF hits = {} THEN 0 ELSE CHOOSE i \in hits : \A j \in hits : i <= j

\* C4: when the first entry that accepts the request was registered with
\* expose = false, no user function is invoked, no other entry is tried and
\* handle() resolves with the 403 'Forbidden' response.
C4_UnexposedIsForbidden ==
    ( /\ inFlight
      /\ firstAccepting # 0
      /\ routes[firstAccepting].wrapped
      /\ routes[firstAccepting].options.expose = "false" )
    => /\ calls = <<>>
       /\ scan \in {0, firstAccepting}
       /\ pc \in {"match", "expose", "done"}
       /\ pc = "done" => response = forbidden("Forbidden", "unset")
       /\ pc = "done" => response.status = 403 /\ response.body.data.message = "Forbidden"

\* an unexposed route answered 403 although an exposed route registered
\* earlier accepts the same request, with an authentication function and
\* middleware configured
C4_Witness ==
    /\ pc = "done"
    /\ Len(routes) = 2
    /\ routes[1].options = HiddenRoute /\ routes[1].id = 2
    /\ routes[2].options = UserRoute /\ accepts(routes[2])
    /\ protectedHandler = "set" /\ beforeHandlers # <<>> /\ finallyHandlers # <<>>
    /\ response.status = 403

\* C5: with a table populated through route(), handle() resolves with the 404
\* 'Route not found' response exactly when no entry accepts the request; when
\* the first accepting entry is unexposed the response is the 403.
C5_NotFoundIffNoMatch ==
    (pc = "done" /\ \A i \in 1..Len(routes) : routes[i].wrapped)
    => /\ (response = notFound("Route not found", "unset")) <=> (firstAccepting = 0)
       /\ response.status = 404 /\ response.origin = "createResponse" => firstAccepting = 0
       /\ (firstAccepting # 0 /\ routes[firstAccepting].options.expose = "false")
            => response.status = 403

\* a 404 for a request whose path a route accepts but whose method it does not
C5_Witness ==
    /\ pc = "done"
    /\ routes # <<>>
    /\ \A i \in 1..Len(routes) : routes[i].wrapped
    /\ \E i \in 1..Len(routes) : matches(req.pathname, routes[i].regex)
    /\ response.status = 404

\* C6: after a before-middleware returned a Response nothing else is invoked
\* for the request (no later before-middleware, no authentication, no body
\* decoding, no handler, no after-middleware) and handle() resolves with
\* that very Response.
C6_BeforeShortCircuit ==
    \A k \in invoked({"before"}) :
        calls[k].out = "response"
        => /\ k = Len(calls)
           /\ pc = "done"
           /\ response =
                  UserResponse(FORBIDDEN, "Blocked by middleware", "before", calls[k].id)

\* the second before-middleware returned a Response on a route that requires
\* auth, with after-middleware registered
C6_Witness ==
    /\ pc = "done"
    /\ Len(calls) = 2
    /\ calls[1].fn = "before" /\ calls[1].out = "return"
    /\ calls[2].fn = "before" /\ calls[2].out = "response"
    /\ routes[scan].options.auth
    /\ protectedHandler = "set"
    /\ finallyHandlers # <<>>
    /\ response.origin = "before" /\ response.by = 2

\* C7: when the route requires auth and the auth gate fails (no function
\* configured, or the function throws), the response is a 401 and neither the
\* handler nor the cache nor an after-middleware is invoked.
C7_AuthFailureIs401 ==
    /\ \A k \in invoked({"authenticate"}) :
           calls[k].out = "throw"
           => /\ k = Len(calls)
              /\ pc = "done"
              /\ response.status = 401
              /\ invoked({"handler", "cache", "after", "body"}) = {}
    /\ (dispatched /\ routes[scan].wrapped /\ routes[scan].options.auth
            /\ protectedHandler = "null")
           => /\ pc \notin {"body", "handler", "after"}
              /\ invoked({"handler", "cache", "after"}) = {}

\* the authentication function threw on a cached route with after-middleware
C7_Witness ==
    /\ pc = "done"
    /\ dispatched
    /\ routes[scan].options = CachedRoute
    /\ finallyHandlers # <<>>
    /\ \E k \in invoked({"auth"}) : calls[k].out = "throw"
    /\ response.status = 401

\* C8: when the handler of a route with auth = true is invoked, the
\* authentication function returned earlier in the request and
\* request.authUser is the value it returned; on a route without auth the
\* function is never invoked and request.authUser stays unset.
C8_HandlerSeesPrincipal ==
    (dispatched /\ routes[scan].wrapped)
    => IF routes[scan].options.auth
       THEN \A k \in invoked({"handler"}) :
               \E j \in invoked({"auth"}) :
                   /\ j < k
                   /\ calls[j].out = "return"
                   /\ req.authUser = calls[j].val
                   /\ req.authUser \in Principals
       ELSE invoked({"auth", "authenticate"}) = {} /\ req.authUser = NoUser

\* the handler of a protected route ran for the principal "bob"
C8_Witness ==
    /\ dispatched
    /\ routes[scan].options = UserRoute
    /\ \E k \in invoked({"handler"}) : calls[k].out = "return"
    /\ req.authUser = "bob"

C10_ThrownBecomes500 ==
    \A k \in invoked({"before", "handler", "cache", "after"}) :
        calls[k].out = "throw"
        => /\ pc = "done"
           /\ response.status = 500
           /\ response.body.fmt = "json"
           /\ response.body.data.message = calls[k].val

\* the Response a user function of kind fn throws in this model
thrownResponse(fn, id) ==
    UserResponse(NOT_FOUND,
                 CASE fn = "before" -> "thrown by middleware"
                   [] fn = "handler" -> "thrown by handler"
                   [] OTHER -> "thrown by after",
                 fn, id)

\* C11: a Response thrown by a before-middleware, the route handler or an
\* after-middleware is what handle() returns, with its own status and body;
\* it is not turned into a 500 and no user function (in particular no
\* remaining after-middleware) runs after the throw.
C11_ThrownResponseVerbatim ==
    \A k \in invoked({"before", "handler", "after"}) :
        calls[k].out = "throwResponse"
        => /\ pc = "done"
           /\ response = thrownResponse(calls[k].fn, calls[k].id)
           /\ \A j \in (k + 1)..Len(calls) : calls[j].fn = "cache"

\* the first of two after-middleware threw a Response, after the handler of
\* the route had returned
C11_Witness ==
    /\ pc = "done"
    /\ Len(finallyHandlers) = 2
    /\ \E k \in invoked({"handler"}) : calls[k].out = "return"
    /\ calls[Len(calls)].fn = "after"
    /\ calls[Len(calls)].id = finallyHandlers[1]
    /\ calls[Len(calls)].out = "throwResponse"
    /\ response.status = 404 /\ response.origin = "after"

\* C12: every error response the framework itself builds (404, 403, 401, 500),
\* whatever the responseContentType of the route, has a body that decodes to
\* an object with error = true, a message, a statusCode equal to the status
\* of the response, and a timestamp.
C12_ErrorBodyShape ==
    (pc = "done" /\ response.origin = "createResponse" /\ response.status # 200)
    => /\ response.body.fmt = "json"
       /\ response.body.data.error = TRUE
       /\ response.body.data.message \in STRING
       /\ response.body.data.statusCode = response.status
       /\ response.body.data.timestamp \in Nat

----------------------------------------------------------------------------
(* Properties of the CacheManager *)

\* the entries among es that have not expired at time t
unexpired(es, t) == {e \in es : t < e.expires}

\* the last completed call is a get() served by the built-in store
builtInGet == observed.op = "get" /\ observed.via = "memory"

\* C13 as stated: on the built-in store, a get(key, factory, ttl') with
\* ttl' > 0 made after set(key, v, ttl) with ttl > 0 and before the entry
\* expires, with no set, delete or clear of the key in between, returns v and
\* does not call the factory.
C13_SetThenGet ==
    ( /\ builtInGet
      /\ observed.since # NotSet
      /\ observed.at < observed.since.expires )
    => /\ observed.out = Return(observed.since.value)
       /\ observed.calls = 0

\* C13, amended: the same, provided no get() of the key that missed before
\* or after the set() completed in between; such a get() stores the result
\* of its factory over v when it completes.
C13_SetThenGetUnlessOverwritten ==
    ( /\ builtInGet
      /\ observed.since # NotSet
      /\ observed.since.intact
      /\ observed.at < observed.since.expires )
    => /\ observed.out = Return(observed.since.value)
       /\ observed.calls = 0

\* a get() with another ttl than the set() used, made a second after it,
\* returned the value that was set
C13_Witness ==
    /\ builtInGet
    /\ observed.since # NotSet
    /\ observed.since.intact
    /\ observed.since.at < observed.at
    /\ observed.at < observed.since.expires
    /\ observed.since.at + observed.ttl * 1000 # observed.since.expires
    /\ observed.out = Return(observed.since.value)
    /\ observed.calls = 0

\* the last completed call is a get() that found no valid entry in the
\* built-in store when it was made
builtInMiss == builtInGet /\ unexpired(observed.found, observed.at) = {}

\* the entry a completed miss has to leave under its key
storedByMiss ==
    [key |-> observed.key, value |-> observed.out.value,
     expires |-> observed.doneAt + observed.ttl * 1000]

\* C14: on the built-in store, a get(key, factory, ttl) with ttl > 0 that
\* finds no valid entry calls the factory exactly once and returns its
\* result; the result is stored under key with expiry = time of storing +
\* ttl * 1000 ms, and the next call, if it is a get() of the same key made
\* before that expiry, is a hit that returns the stored result.
C14_MissComputesAndStores ==
    /\ [](builtInMiss =>
            /\ observed.calls = 1
            /\ observed.out \in FactoryOutcomes
            /\ observed.out.kind = "return" =>
                  /\ observed.wrote
                  /\ cached(observed.key) = {storedByMiss})
    /\ [][ \A f \in Callers, ttl \in Ttls :
             ( /\ builtInMiss
               /\ observed.out.kind = "return"
               /\ now < storedByMiss.expires
               /\ ttl > 0
               /\ get(f, observed.key, ttl) )
             => /\ observed'.op = "get"
                /\ observed'.calls = 0
                /\ observed'.out = observed.out
                /\ flights' = flights ]_vars

\* a miss completed a second after it was made, while the clock had moved:
\* the entry expires ttl seconds after the time of storing
C14_Witness ==
    /\ builtInMiss
    /\ observed.out.kind = "return"
    /\ observed.at < observed.doneAt
    /\ cached(observed.key) = {storedByMiss}
    /\ storedByMiss.expires = observed.doneAt + 2000

\* C15: with ttl <= 0 nothing is cached: get() calls the factory and returns
\* its result, set() does nothing, and neither call changes the built-in
\* store, whether or not a cache handler is configured.
C15_NoCachingAtZeroTtl ==
    /\ [](( observed.op \in {"get", "set"} /\ observed.ttl <= 0 ) =>
            /\ ~observed.wrote
            /\ observed.op = "get" =>
                  /\ observed.via = "factory"
                  /\ observed.calls = 1
                  /\ observed.out \in FactoryOutcomes
            /\ observed.op = "set" =>
                  /\ observed.via = "none"
                  /\ observed.out = Return(Undefined))
    /\ [][ memoryCache' # memoryCache =>
             \A key \in CacheKeys, ttl \in Ttls :
                ttl <= 0 =>
                   /\ \A f \in Callers : ~get(f, key, ttl)
                   /\ \A f \in Callers :
                         (flights[f].state = "pending" /\ flights[f].ttl = ttl)
                         => ~resume(f)
                   /\ \A value \in StoredValues : ~set(key, value, ttl) ]_vars

\* a get() with ttl 0 completed while the store held a valid entry under its
\* key: the factory ran and the entry is still there
C15_Witness ==
    /\ observed.op = "get"
    /\ observed.ttl = 0
    /\ observed.calls = 1
    /\ observed.out = Return(Data(2))
    /\ unexpired(cached(observed.key), observed.doneAt) # {}
    /\ \A e \in cached(observed.key) : e.value # Data(2)

\* C16: an entry is valid strictly before its expiry time.  has(key) answers
\* true exactly when the key has an entry with now < expires, and removes an
\* entry it finds expired; a get() on the built-in store is a hit (no factory
\* call) exactly under the same condition.
C16_ValidStrictlyBeforeExpiry ==
    /\ observed.op = "has" =>
          LET live == unexpired(observed.found, observed.at) IN
          /\ observed.out = Return(Boolean(live # {}))
          /\ cached(observed.key) = live
    /\ builtInGet =>
          (observed.calls = 0 <=> unexpired(observed.found, observed.at) # {})
    /\ \A f \in Callers :
          (flights[f].state = "pending" /\ flights[f].via = "memory")
          => /\ unexpired(flights[f].found, flights[f].at) = {}
             /\ flights[f].calls = 1

\* has() looked at an entry exactly at its expiry time: false, entry removed
C16_Witness ==
    /\ observed.op = "has"
    /\ \E e \in observed.found : e.expires = observed.at
    /\ observed.out = Return(Boolean(FALSE))
    /\ cached(observed.key) = {}

\* C17: the built-in store has no single-flight protection: a get() that
\* starts while the factory of another get() of the same key is pending and
\* no valid entry exists invokes its own factory.
C17_NoSingleFlight ==
    [][ \A f \in Callers, key \in CacheKeys, ttl \in Ttls :
          ( /\ ttl > 0
            /\ cacheHandler = "null"
            /\ unexpired(cached(key), now) = {}
            /\ \E g \in Callers :
                  /\ flights[g].state = "pending"
                  /\ flights[g].via = "memory"
                  /\ flights[g].key = key
            /\ get(f, key, ttl) )
          => /\ flights'[f].state = "pending"
             /\ flights'[f].calls = 1 ]_vars

\* two factories of one key are running at the same time
C17_Witness ==
    \E f, g \in Callers :
        /\ f # g
        /\ flights[f].state = "pending" /\ flights[g].state = "pending"
        /\ flights[f].via = "memory" /\ flights[g].via = "memory"
        /\ flights[f].key = flights[g].key
        /\ flights[f].at = flights[g].at
        /\ flights[f].calls = 1 /\ flights[g].calls = 1

\* C19: once a cache handler is configured, every get(key, factory, ttl), for
\* any ttl, is answered by the handler (get() does not call the factory
\* itself), every set() goes to the handler, and neither touches the
\* built-in store.
C19_HandlerPassThrough ==
    /\ \A f \in Callers :
          (flights[f].state = "pending" /\ flights[f].custom)
          => flights[f].via = "handler" /\ flights[f].calls = 0
    /\ (observed.op \in {"get", "set"} /\ observed.custom)
          => observed.via = "handler" /\ ~observed.wrote

----------------------------------------------------------------------------
(* Properties of the cache keys and of the scores *)

\* C18: generateKey never conflates distinct requests: two calls whose
\* requests differ in method, path or query string, or whose principals
\* differ (an anonymous caller against any principal included), yield
\* different keys; the same request and principal yield the same key.
C18_KeysSeparateRequests ==
    \A i, j \in 1..Len(derived) :
        (derived[i].key = derived[j].key)
        <=> ( /\ derived[i].request = derived[j].request
              /\ derived[i].authUser = derived[j].authUser )

\* C20: a fully literal pattern scores strictly higher than every pattern
\* that contains ':' or '*', whatever the numbers of segments.
C20_LiteralOutscores ==
    \A i, j \in 1..Len(routes) :
        (isExactPath(routes[i].path) /\ ~isExactPath(routes[j].path))
        => scoreAt(i) > scoreAt(j)

----------------------------------------------------------------------------
(* Properties of the middleware chains and of the stage order *)

\* the entries of the calls log made by functions of kind fn, in order
callsOf(fn) == SelectSeq(calls, LAMBDA c : c.fn = fn)

\* C21: executeBefore invokes the before-handlers in cumulative registration
\* order (the k-th call of the chain goes to the k-th handler ever
\* registered), each at most once; the first receives the request handle()
\* was called with and each later one the request the previous handler
\* returned; when no handler returns a Response the chain yields the request
\* the last handler returned.
C21_BeforeChainOrder ==
    LET bs == callsOf("before") IN
    /\ Len(bs) <= Len(beforeHandlers)
    /\ \A k \in 1..Len(bs) :
          /\ bs[k].id = k
          /\ bs[k].id = beforeHandlers[k]
          /\ bs[k].got = IF k = 1 THEN RequestValue(Client) ELSE bs[k - 1].ret
          /\ k < Len(bs) => bs[k].out = "return"
    /\ pc \in {"auth", "body", "handler", "after"} =>
          /\ Len(bs) = Len(beforeHandlers)
          /\ \A k \in 1..Len(bs) : bs[k].out = "return"
          /\ bs # <<>> => RequestValue(req.tag) = bs[Len(bs)].ret

\* two handlers registered by two addBefore calls ran in that order: the
\* first built a request of its own, the second received it and returned it,
\* and the route handler was then invoked with it
C21_Witness ==
    /\ Len(beforeHandlers) = 2
    /\ Len(callsOf("before")) = 2
    /\ callsOf("before")[1].ret = RequestValue(builtBy(1))
    /\ callsOf("before")[2].got = RequestValue(builtBy(1))
    /\ callsOf("before")[2].ret = RequestValue(builtBy(1))
    /\ req.tag = builtBy(1)
    /\ invoked({"handler"}) # {}

\* the after-chain of the request in flight, as far as it got
afterChain ==
    LET as == callsOf("after") IN
    /\ Len(as) <= Len(finallyHandlers)
    /\ \A k \in 1..Len(as) :
          /\ as[k].id = k
          /\ as[k].id = finallyHandlers[k]
          /\ as[k].got.t = "Response"
          /\ IF k = 1 THEN as[k].got.response.origin # "after"
             ELSE as[k].got = as[k - 1].ret
          /\ k < Len(as) => as[k].out = "response"

\* C22 as stated: once the after-chain has started, every registered
\* after-handler is invoked exactly once, in registration order, each with
\* the Response the previous one returned, whatever an earlier after-handler
\* did.
C22_AfterChainCompletes ==
    LET as == callsOf("after") IN
    /\ afterChain
    /\ (pc = "done" /\ as # <<>>) => Len(as) = Len(finallyHandlers)

\* C22, amended: the same as long as no after-handler throws; the handle()
\* call then resolves with the Response the last after-handler returned.  An
\* after-handler that throws ends the chain: no later after-handler runs and
\* the request is answered by the catch clause of the wrapped handler.
C22_AfterChainCompletesUnlessThrow ==
    LET as == callsOf("after") IN
    /\ afterChain
    /\ (pc = "done" /\ as # <<>> /\ as[Len(as)].out = "response")
          => /\ Len(as) = Len(finallyHandlers)
             /\ response = as[Len(as)].ret.response
    /\ (as # <<>> /\ as[Len(as)].out # "response")
          => /\ pc = "done"
             /\ calls[Len(calls)] = as[Len(as)]
             /\ response.status \in {NOT_FOUND, INTERNAL_SERVER_ERROR}

\* both after-handlers ran: the first replaced the response, the second got
\* that response and replaced it again, and handle() resolved with the last
C22_Witness ==
    /\ pc = "done"
    /\ Len(finallyHandlers) = 2
    /\ Len(callsOf("after")) = 2
    /\ callsOf("after")[2].out = "response"
    /\ callsOf("after")[1].ret.response.by = 1
    /\ callsOf("after")[2].got.response.by = 1
    /\ callsOf("after")[2].ret.response.by = 2
    /\ response.origin = "after" /\ response.by = 2

\* C23: when the authentication function of a route that requires auth
\* throws an Error, the request ends with a 401 whose body has, as its
\* message, the message of that Error.
C23_AuthMessagePreserved ==
    \A k \in invoked({"auth"}) :
        \A o \in ProtectedOutcomes :
            (o.kind = "throw" /\ o.value.t = "Error" /\ calls[k] = Call("auth", 0, o))
            => /\ pc = "done"
               /\ response.status = UNAUTHORIZED
               /\ response.body.fmt = "json"
               /\ response.body.data.message = o.value.message

\* the entries of the table whose matcher accepts the path of the request
pathAccepting == {i \in 1..Len(routes) : matches(req.pathname, routes[i].regex)}

\* the entry at position i was tried and its handler returned nothing
fellThrough(i) ==
    /\ ~routes[i].wrapped
    /\ \E k \in invoked({"legacy"}) : calls[k].id = routes[i].id /\ calls[k].out = "return"

\* C24: a route registered through route() carries its method in upper case.
\* An OPTIONS request is dispatched to the first entry whose matcher accepts
\* the path, whatever the entry's method, and goes through that route's
\* pipeline (it is answered 404 'Route not found' only when no wrapped entry
\* accepts the path); a request with another method is dispatched only to an
\* entry whose method equals the request's.
C24_MethodCompatibility ==
    /\ \A i \in 1..Len(routes) :
          routes[i].wrapped
          => routes[i].method = toUpperCase(routes[i].options.method)
             /\ routes[i].method \in {"GET", "POST"}
    /\ dispatched =>
          /\ scan \in pathAccepting
          /\ req.method # "OPTIONS" => routes[scan].method = req.method
          /\ req.method = "OPTIONS" =>
                \A i \in pathAccepting : i < scan => fellThrough(i)
    /\ (req.method = "OPTIONS" /\ pc \notin {"idle", "match"}) =>
          /\ pathAccepting # {} => dispatched
          /\ (pc = "done" /\ response = notFound("Route not found", "unset"))
                => \A i \in pathAccepting : fellThrough(i)

\* an OPTIONS request went through the whole pipeline of a route registered
\* for 'get': before-middleware, authentication, handler and after-middleware
C24_Witness ==
    /\ pc = "done"
    /\ req.method = "OPTIONS"
    /\ dispatched
    /\ routes[scan].options.method = "get" /\ routes[scan].method = "GET"
    /\ scan = 1
    /\ invoked({"before"}) # {} /\ invoked({"auth"}) # {} /\ invoked({"after"}) # {}
    /\ \E k \in invoked({"handler"}) : calls[k].out = "return"
    /\ response.status = OK

\* C25: a route registered through route() without an expose flag is
\* exposed: a request dispatched to it is not answered by the exposure check
\* (the 403 'Forbidden' the router builds) and goes on to the
\* before-middleware stage, whose first handler, if there is one, is invoked.
C25_ExposedByDefault ==
    ( /\ dispatched
      /\ routes[scan].wrapped
      /\ routes[scan].options.expose = "unset" )
    => /\ pc = "done" => response # forbidden("Forbidden", "unset")
       /\ (pc = "done" /\ response.status = FORBIDDEN) => response.origin = "before"
       /\ (pc \notin {"expose", "legacy"} /\ beforeHandlers # <<>>)
             => \/ pc = "before" /\ cur = 1
                \/ callsOf("before") # <<>>

\* a request to a route without an expose flag went through the
\* before-middleware and was answered by the route handler
C25_Witness ==
    /\ pc = "done"
    /\ dispatched
    /\ routes[scan].options = ProfileRoute
    /\ ProfileRoute.expose = "unset"
    /\ callsOf("before") # <<>>
    /\ \E k \in invoked({"handler"}) : calls[k].out = "return"
    /\ response.status = OK

\* the names of the parameters of a pattern, in order
paramNames(path) ==
    LET named == SelectSeq(path.segs, LAMBDA seg : seg.k \in {"param", "greedy"})
    IN [i \in 1..Len(named) |-> named[i].s]

\* the runs of one or more consecutive non-empty segments of the pathname,
\* each written as they appear in the pathname, joined by '/'
segmentRuns(pathname) ==
    {joinSlash(SubSeq(pathname, a, b)) :
        <<a, b>> \in {r \in (1..Len(pathname)) \X (1..Len(pathname)) :
                        r[1] <= r[2] /\ \A n \in r[1]..r[2] : pathname[n] # ""}}

\* C26: when a pattern accepts a path, the params map holds exactly the
\* pattern's parameter names; a ':name' parameter holds one non-empty segment
\* of the path, a greedy ':name+' parameter holds one or more segments of the
\* path joined by '/'; '/users/:userId/posts/:postId' on '/users/123/posts/456'
\* gives userId = '123' and postId = '456'.
C26_ParamExtraction ==
    (pc = "expose" /\ routes[scan].wrapped)
    => LET path == routes[scan].path
           named == SelectSeq(path.segs, LAMBDA seg : seg.k \in {"param", "greedy"})
       IN
       /\ [i \in 1..Len(req.params) |-> req.params[i].name] = paramNames(path)
       /\ \A i \in 1..Len(req.params) :
             IF named[i].k = "param"
             THEN req.params[i].value # ""
                  /\ \E n \in 1..Len(req.pathname) : req.pathname[n] = req.params[i].value
             ELSE req.params[i].value \in segmentRuns(req.pathname)
       /\ (path = UsersPosts /\ req.pathname = <<"users", "123", "posts", "456">>)
             => req.params = <<[name |-> "userId", value |-> "123"],
                               [name |-> "postId", value |-> "456"]>>

\* C27: clone() returns a manager whose lists hold the handlers of the
\* original, in the same order, at the time of the call; afterwards addBefore,
\* addFinally and clear on one of the two managers leave the lists of the
\* other as they were.
C27_CloneIndependent ==
    [][ /\ (cloned = NoManager /\ cloned' # NoManager)
             => /\ cloned'.beforeHandlers.items = beforeHandlers
                /\ cloned'.finallyHandlers.items = finallyHandlers
                /\ beforeHandlers' = beforeHandlers
                /\ finallyHandlers' = finallyHandlers
        /\ (cloned # NoManager /\ <<beforeHandlers, finallyHandlers>>' # <<beforeHandlers, finallyHandlers>>)
             => /\ cloned'.beforeHandlers.items = cloned.beforeHandlers.items
                /\ cloned'.finallyHandlers.items = cloned.finallyHandlers.items
        /\ (cloned # NoManager /\ cloned' # cloned)
             => /\ beforeHandlers' = beforeHandlers
                /\ finallyHandlers' = finallyHandlers ]_vars

\* the original got a second before-handler after it was cloned and the
\* clone was then cleared: the original holds both handlers and its
\* after-handler, the clone holds nothing
C27_Witness ==
    /\ cloned # NoManager
    /\ beforeHandlers = <<1, 2>>
    /\ finallyHandlers = <<1>>
    /\ cloned.beforeHandlers.items = <<>>
    /\ cloned.finallyHandlers.items = <<>>
    /\ made.finally = 1

\* the place of a logged call in the order of the stages
stageRank(fn) ==
    CASE fn = "legacy" -> 0
      [] fn = "before" -> 1
      [] fn \in {"auth", "authenticate"} -> 2
      [] fn = "body" -> 3
      [] fn \in {"handler", "cache"} -> 4
      [] fn = "after" -> 5

\* C28: within one request the stages run in the order exposure check,
\* before-middleware, authentication, body decoding, cache lookup / handler,
\* normalization, after-middleware, each after the previous one completed:
\* nothing is invoked for an unexposed route; the handler (or the cache) is
\* invoked only after every before-middleware returned a request, the
\* authentication function returned if the route requires auth, and the body
\* was decoded if it is to be decoded; an after-middleware is invoked only
\* after the handler stage produced its result, and the first one receives
\* the normalized Response.
C28_StageOrder ==
    (dispatched /\ routes[scan].wrapped) =>
    LET options == routes[scan].options IN
    /\ \A j, k \in 1..Len(calls) : j < k => stageRank(calls[j].fn) <= stageRank(calls[k].fn)
    /\ invoked({"before", "auth", "authenticate", "body", "handler", "cache", "after"}) # {}
          => options.expose # "false"
    /\ (invoked({"handler", "cache"}) # {} \/ pc \in {"handler", "after"}) =>
          /\ Len(callsOf("before")) = Len(beforeHandlers)
          /\ \A k \in invoked({"before"}) : calls[k].out = "return"
          /\ options.auth =>
                \E k \in invoked({"authenticate"}) : calls[k].out = "return"
          /\ decodesBody(options, req) => invoked({"body"}) # {}
    /\ invoked({"after"}) # {} =>
          /\ \E k \in invoked({"handler", "cache"}) :
                /\ calls[k].out \in {"return", "response"}
                /\ \A j \in invoked({"handler", "cache"}) : j <= k
          /\ callsOf("after")[1].got.t = "Response"
          /\ callsOf("after")[1].got.response.origin
                \in {"createResponse", "rawResponse", "handler", "reconstructed"}
    /\ pc = "after" => result # NoResponse

\* a request went through every stage: two before-middleware, the
\* authentication function, body decoding, the handler behind the cache, and
\* an after-middleware
C28_Witness ==
    /\ pc = "done"
    /\ dispatched
    /\ routes[scan].options = CachedRoute
    /\ [k \in 1..Len(calls) |-> calls[k].fn]
          = <<"before", "before", "auth", "authenticate", "body", "handler", "cache",
              "after", "after">>
    /\ response.status = OK

\* the logged call ended in a failure
failed(c) == c.out \in {"throw", "throwResponse"}

cacheHits ==
    {k \in invoked({"cache"}) :
        calls[k].out = "return" /\ (k = 1 \/ calls[k - 1].fn # "handler")}

\* the request in flight was refused: by the exposure check, by a
\* before-middleware that returned a Response, or by the auth gate
refused ==
    \/ routes[scan].options.expose = "false"
    \/ \E k \in invoked({"before"}) : calls[k].out = "response"
    \/ \E k \in invoked({"authenticate"}) : calls[k].out = "throw"

\* the built-in store holds a valid entry under the key the request has for
\* a principal
validEntry(principal) == isCacheValid(cached(generateKey(req, principal)), now)

\* C30: a cache hit never bypasses access control.  The cache answers a
\* request only after, in that request, the exposure check passed, every
\* before-middleware returned a request and, on a route that requires auth,
\* the authentication function succeeded; a request refused by one of these
\* gets the 403, the middleware's Response or the 401 and the cache is not
\* consulted, whether or not it holds a valid entry for the request.
C30_CacheBehindAccessControl ==
    (dispatched /\ routes[scan].wrapped) =>
    LET options == routes[scan].options IN
    /\ cacheHits # {} =>
          /\ options.expose # "false"
          /\ Len(callsOf("before")) = Len(beforeHandlers)
          /\ \A k \in invoked({"before"}) : calls[k].out = "return"
          /\ options.auth =>
                /\ \E k \in invoked({"authenticate"}) :
                      calls[k].out = "return" /\ k < CHOOSE h \in cacheHits : TRUE
                /\ req.authUser \in Principals
    /\ refused =>
          /\ invoked({"cache", "handler"}) = {}
          /\ pc \notin {"body", "handler", "after"}
          /\ pc = "done" =>
                \/ response = forbidden("Forbidden", "unset")
                \/ response.status = UNAUTHORIZED /\ response.origin = "createResponse"
                \/ response.origin = "before"

\* the auth gate refused a request on a cached route although the built-in
\* store holds a valid entry for that request and the principal "alice",
\* left by an earlier request
C30_Witness ==
    /\ pc = "done"
    /\ dispatched
    /\ routes[scan].options = CachedRoute
    /\ cacheHandler = "null"
    /\ validEntry("alice")
    /\ \E k \in invoked({"authenticate"}) : calls[k].out = "throw"
    /\ response.status = UNAUTHORIZED

----------------------------------------------------------------------------
(* Properties of cached Responses, of the after-chain's preconditions and of
   the built-in store under failures and concurrent calls *)

\* the wrapped handler has just been answered by the built-in store without
\* the route handler being called
servedFromStore ==
    /\ dispatched
    /\ pc = "after"
    /\ cacheHandler = "null"
    /\ cacheHits # {}
    /\ calls[Len(calls)].fn = "cache"

\* the Responses that route handlers returned on the misses that wrote the
\* entry the request in flight reads
fills ==
    {x.outcome.value.response : x \in
        {y \in misses : /\ y.key = generateKey(req, req.authUser)
                        /\ y.outcome.kind = "return"
                        /\ y.outcome.value.t = "Response"}}

\* C31: caching a handler that returns a Response is a round trip.  On a
\* cached route the Response produced on a cache hit has the same status, the
\* same body text and the same headers as the Response the handler returned
\* on the miss that filled the entry, and the handler is not invoked on the
\* hit.
C31_ResponseRoundTrip ==
    servedFromStore =>
        /\ invoked({"handler"}) = {}
        /\ \A r \in fills :
              /\ result.status = r.status
              /\ result.body = r.body
              /\ result.contentType = r.contentType
              /\ result.cookies = r.cookies

\* the handler stage of the request in flight completed without throwing:
\* the route handler, or the cache layer in its place, returned
handlerCompleted ==
    LET stage == invoked({"handler", "cache"}) IN
    /\ stage # {}
    /\ calls[CHOOSE k \in stage : \A j \in stage : j <= k].out \in {"return", "response"}

\* something was thrown before the after-chain could start
threwEarly ==
    \E k \in invoked({"before", "handler", "cache"}) : calls[k].out \in {"throw", "throwResponse"}

atBuiltInGet ==
    /\ dispatched
    /\ pc = "handler"
    /\ usesCache(routes[scan].options)
    /\ cacheHandler = "null"

\* the calls of the route handler that the step being taken adds to the log
handlerCalls(log) == {k \in 1..Len(log) : log[k].fn = "handler"}

\* C33: if the factory of a get(key, factory, ttl > 0) on the built-in store
\* throws or rejects, the error propagates to the caller of get, nothing is
\* stored and the store is left exactly as it was before the call.  So a
\* handler that throws on a cached route is never cached: the store only
\* holds values that were returned, and a later request that finds no valid
\* entry invokes the handler again.
C33_FailedFactoryStoresNothing ==
    /\ [](\A e \in memoryCache : e.value.t \in {"object", "_isResponse"})
    /\ [][ atBuiltInGet =>
             LET key == generateKey(req, req.authUser)
                 new == handlerCalls(calls') \ handlerCalls(calls)
             IN
             /\ ~isCacheValid(cached(key), now) => new # {}
             /\ \A k \in new :
                   calls'[k].out \in {"throw", "throwResponse"} =>
                      /\ memoryCache' = memoryCache
                      /\ cleanupInterval' = cleanupInterval
                      /\ timers' = timers
                      /\ calls'[Len(calls')] = [calls'[k] EXCEPT !.fn = "cache", !.id = 0]
                      /\ pc' = "done"
                      /\ response'.origin # "reconstructed"
                      /\ response'.status \in {INTERNAL_SERVER_ERROR, NOT_FOUND} ]_vars

\* a second request is about to miss on a key whose handler threw on the
\* miss before: the store holds no entry for it
C33_Witness ==
    /\ atBuiltInGet
    /\ served = 2
    /\ LET key == generateKey(req, req.authUser) IN
       /\ cached(key) = {}
       /\ \E x \in misses : x.key = key /\ x.outcome.kind = "throw"

\* the entries of the built-in store under key after the step being taken
cachedNext(key) == {e \in memoryCache' : e.key = key}

\* C34: a get() that missed and is awaiting its factory writes its result
\* into the built-in store when the factory resolves, whatever happened
\* meanwhile.  After a delete(key) or a clear() made while the factory was
\* pending the key is present again, and a value that a set() or another
\* get() stored in the meantime is overwritten: the key then holds the
\* result of this factory, expiring ttl seconds after the time of the write.
C34_PendingMissWritesAnyway ==
    [][ \A f \in Callers :
          ( /\ flights[f].state = "pending"
            /\ flights[f].via = "memory"
            /\ flights'[f] = Idle
            /\ observed'.out.kind = "return" )
          => /\ observed'.wrote
             /\ cachedNext(flights[f].key) =
                    {[key |-> flights[f].key, value |-> observed'.out.value,
                      expires |-> now + flights[f].ttl * 1000]}
             /\ cleanupInterval' # NoTimer
             /\ \A e \in memoryCache : e.key # flights[f].key => e \in memoryCache' ]_vars

\* a get() found an expired entry that a set() had stored, the key was
\* deleted or the store cleared while its factory was pending, and the key
\* is present again now that the get() has completed
C34_Witness ==
    /\ builtInMiss
    /\ observed.wrote
    /\ observed.since # NotSet
    /\ observed.found # {}
    /\ lastSet[observed.key] = NotSet
    /\ cached(observed.key) = {storedByMiss}

\* the body of the request in flight is not to be read
bodySkipped ==
    req.method \in {"GET", "HEAD"} \/ routes[scan].options.rawRequest

\* C35: body decoding is best-effort and conditional.  For a request whose
\* method is GET or HEAD, or on a route with rawRequest set, the body is not
\* read and request.content is left unset; otherwise the body is read before
\* the handler stage, and a failure to read or parse it sets request.content
\* to null and the pipeline continues to the handler stage instead of ending
\* with an error response.
C35_BodyDecodingBestEffort ==
    (dispatched /\ routes[scan].wrapped) =>
    /\ bodySkipped =>
          /\ req.content = "unset"
          /\ invoked({"body"}) = {}
    /\ (~bodySkipped /\ pc \in {"handler", "after"}) =>
          /\ req.content \in {"parsed", "null"}
          /\ Len(callsOf("body")) = 1
    /\ req.content = "null" =>
          /\ pc \in {"handler", "after", "done"}
          /\ pc = "handler" => response = NoResponse
          /\ pc \in {"after", "done"} => invoked({"handler"}) # {}
          /\ \A k \in invoked({"body"}) : ~failed(calls[k])

\* the body of a POST request could not be parsed, the handler ran with
\* content null and its result is the response
C35_Witness ==
    /\ pc = "done"
    /\ dispatched /\ routes[scan].wrapped
    /\ req.method = "POST"
    /\ req.content = "null"
    /\ \E k \in invoked({"handler"}) : calls[k].out = "return"
    /\ response.status = OK

----------------------------------------------------------------------------
(* Properties of the route table and of the scorer *)

referenceWeight(segment) ==
    IF ~includesColon(segment) /\ ~includesStar(segment) THEN 1000
    ELSE IF segment.k \in {"param", "greedy"} THEN 10
    ELSE IF includesStar(segment) THEN 1
    ELSE 0

RECURSIVE referenceSum(_)
referenceSum(segs) ==
    IF segs = <<>> THEN 0 ELSE referenceWeight(Head(segs)) + referenceSum(Tail(segs))

\* ... plus the character length of the pattern, plus 10000 when the pattern
\* contains neither ':' nor '*' anywhere
referenceScore(path) ==
    referenceSum(path.segs) + pathLength(path)
        + (IF \A i \in 1..Len(path.segs) :
                 ~includesColon(path.segs[i]) /\ ~includesStar(path.segs[i])
           THEN 10000 ELSE 0)

\* C37: for every path pattern, getRouteSpecificity equals the reference
\* scorer of the specification: the sum over the non-empty segments of 1000
\* for a segment containing neither ':' nor '*', 10 for a named-parameter
\* segment and 1 for a segment containing '*', plus the character length of
\* the pattern, plus 10000 when the pattern contains neither ':' nor '*'.
C37_ScorerMatchesReference ==
    \A i \in 1..Len(routes) :
        getRouteSpecificity(extractPath(routes[i])) = referenceScore(extractPath(routes[i]))

\* C38: every entry of the route table has a method that is one of GET, POST,
\* PUT, PATCH, DELETE, OPTIONS, HEAD, in upper case, and an original path
\* that starts with '/', after any sequence of route() and addRoute() calls
\* with arbitrary arguments.
C38_EntriesWellFormed ==
    \A i \in 1..Len(routes) :
        /\ routes[i].method \in validMethods
        /\ routes[i].hasPath
        /\ routes[i].path.abs

----------------------------------------------------------------------------
(* Properties of the cleanup sweep of the built-in store *)

\* the step being taken is a write of the built-in store: a set(), or a
\* get() completing with the result of its factory
writes ==
    /\ \/ issued' # issued /\ flights' = flights
       \/ \E f \in Callers : flights[f].state = "pending" /\ flights'[f] = Idle
    /\ observed'.op \in {"get", "set"}
    /\ observed'.wrote

\* C39: the cleanup sweep of the built-in store is started by the first
\* write when no sweep timer is active, and there is never more than one
\* timer at a time; each run removes every entry with expires <= now and
\* keeps the others; a run that leaves the store empty stops the timer, and
\* the next write starts it again.
C39_SweepLifecycle ==
    /\ [](timers <= 1 /\ (timers = 1 <=> cleanupInterval # NoTimer))
    /\ [][ writes =>
             IF cleanupInterval = NoTimer
             THEN cleanupInterval' = now + CLEANUP_PERIOD /\ timers' = timers + 1
             ELSE cleanupInterval' = cleanupInterval /\ timers' = timers ]_vars
    /\ [][ cleanupExpired =>
             /\ memoryCache' = {e \in memoryCache : e.expires > now}
             /\ IF memoryCache' = {}
                THEN cleanupInterval' = NoTimer /\ timers' = 0
                ELSE cleanupInterval' # NoTimer /\ timers' = timers ]_vars

\* a set() started the timer at time 0, the sweep removed its entry after it
\* expired and stopped the timer, and a write made after that started a new
\* timer
C39_Witness ==
    /\ \E k \in CacheKeys :
          /\ lastSet[k] # NotSet
          /\ lastSet[k].at = 0
          /\ cached(k) = {}
    /\ memoryCache # {}
    /\ timers = 1
    /\ cleanupInterval = now + CLEANUP_PERIOD
    /\ now > CLEANUP_PERIOD

\* the entries of the built-in store whose expiry time has passed
expiredEntries == {e \in memoryCache : e.expires <= now}

\* C40: in every reachable state of the built-in store, if the store holds
\* at least one entry then a cleanup timer is scheduled, after any
\* interleaving of get, set, has, delete, clear and sweep runs; so, as long
\* as the timer keeps firing, every entry whose expiry time has passed is
\* eventually removed from the store.
C40_EntriesAreSwept ==
    /\ [](memoryCache # {} => (cleanupInterval # NoTimer /\ timers = 1))
    /\ \A key \in CacheKeys :
          (\E e \in expiredEntries : e.key = key)
              ~> (\A e \in expiredEntries : e.key # key)

\* a run of the sweep has just removed an expired entry and left another
\* entry, written later, in the store: the timer stays scheduled
C40_Witness ==
    /\ observed.op = "cleanup"
    /\ observed.wrote
    /\ memoryCache # {}
    /\ expiredEntries = {}
    /\ cleanupInterval # NoTimer
    /\ cleanupInterval > now

====
